---- MODULE Spec2Model ----
(***************************************************************************)
(* Model of the HTTP LSP server (lsp/src): the request-block parser        *)
(* (parser.rs), the executor's dispatch (executor.rs) and the protocol     *)
(* handlers of HttpLspServer (lsp_server.rs) with the document store       *)
(* guarded by a tokio Mutex.                                               *)
(*                                                                         *)
(* Strings are sequences of one-character strings, so that trimming,       *)
(* splitting, upper-casing and prefix tests are computed as the code       *)
(* computes them.  Option<T> is a sequence of length at most one:          *)
(* None is <<>> and Some(x) is <<x>>.  Line indices are zero-based as in   *)
(* the code; the TLA+ sequence position of line idx is idx + 1.            *)
(***************************************************************************)
EXTENDS Integers, Sequences, FiniteSets, TLC

\* ------------------------------------------------------------------------
\* Option<T>
\* ------------------------------------------------------------------------
None == <<>>

Some(x) == <<x>>

is_some(o) == o # <<>>

is_none(o) == o = <<>>

unwrap(o) == o[1]

unwrap_or(o, d) == IF is_some(o) THEN unwrap(o) ELSE d

\* ------------------------------------------------------------------------
\* str primitives used by the parser
\* ------------------------------------------------------------------------
\* char::is_whitespace on the characters the inputs are built from
Whitespace == {" ", "\t", "\r"}

Min(S) == CHOOSE x \in S : \A y \in S : x <= y

Max(S) == CHOOSE x \in S : \A y \in S : y <= x

\* The positions of s that hold a character of cs, and those that do not
positions_in(s, cs) == { i \in 1..Len(s) : s[i] \in cs }

positions_not_in(s, cs) == { i \in 1..Len(s) : s[i] \notin cs }

\* str::trim_start
trim_start(s) ==
    IF positions_not_in(s, Whitespace) = {} THEN <<>>
    ELSE SubSeq(s, Min(positions_not_in(s, Whitespace)), Len(s))

\* str::trim_end
trim_end(s) ==
    IF positions_not_in(s, Whitespace) = {} THEN <<>>
    ELSE SubSeq(s, 1, Max(positions_not_in(s, Whitespace)))

\* str::trim
trim(s) == trim_end(trim_start(s))

\* str::starts_with
starts_with(s, prefix) ==
    /\ Len(s) >= Len(prefix)
    /\ SubSeq(s, 1, Len(prefix)) = prefix

\* str::find for a character: Some(zero-based index of the first match)
find(s, c) ==
    IF positions_in(s, {c}) = {} THEN None
    ELSE Some(Min(positions_in(s, {c})) - 1)

\* The text before the first character of stops (all of s without one)
take_until(s, stops) ==
    IF positions_in(s, stops) = {} THEN s
    ELSE SubSeq(s, 1, Min(positions_in(s, stops)) - 1)

\* str::split_whitespace: the maximal runs of non-whitespace characters
RECURSIVE split_whitespace(_)
split_whitespace(s) ==
    IF trim_start(s) = <<>> THEN <<>>
    ELSE <<take_until(trim_start(s), Whitespace)>>
         \o split_whitespace(SubSeq(trim_start(s),
                                    Len(take_until(trim_start(s), Whitespace)) + 1,
                                    Len(trim_start(s))))

Lower == <<"a","b","c","d","e","f","g","h","i","j","k","l","m",
           "n","o","p","q","r","s","t","u","v","w","x","y","z">>

Upper == <<"A","B","C","D","E","F","G","H","I","J","K","L","M",
           "N","O","P","Q","R","S","T","U","V","W","X","Y","Z">>

Digits == {"0","1","2","3","4","5","6","7","8","9"}

index_in(alphabet, c) ==
    IF \E i \in 1..Len(alphabet) : alphabet[i] = c
    THEN CHOOSE i \in 1..Len(alphabet) : alphabet[i] = c
    ELSE 0

char_to_upper(c) ==
    IF index_in(Lower, c) # 0 THEN Upper[index_in(Lower, c)] ELSE c

char_to_lower(c) ==
    IF index_in(Upper, c) # 0 THEN Lower[index_in(Upper, c)] ELSE c

\* str::to_uppercase
to_uppercase(s) == [i \in 1..Len(s) |-> char_to_upper(s[i])]

to_lowercase(s) == [i \in 1..Len(s) |-> char_to_lower(s[i])]

\* str::lines: split at "\n"; a final empty piece is not a line; a trailing
\* "\r" of a line is removed
strip_cr(l) ==
    IF l # <<>> /\ l[Len(l)] = "\r" THEN SubSeq(l, 1, Len(l) - 1) ELSE l

RECURSIVE lines_of(_)
lines_of(s) ==
    IF s = <<>> THEN <<>>
    ELSE IF positions_in(s, {"\n"}) = {} THEN <<strip_cr(s)>>
    ELSE <<strip_cr(take_until(s, {"\n"}))>>
         \o lines_of(SubSeq(s, Min(positions_in(s, {"\n"})) + 1, Len(s)))

\* [&str]::join
RECURSIVE join(_, _)
join(ls, sep) ==
    IF ls = <<>> THEN <<>>
    ELSE IF Len(ls) = 1 THEN ls[1]
    ELSE ls[1] \o sep \o join(Tail(ls), sep)

\* ------------------------------------------------------------------------
\* parser.rs
\* ------------------------------------------------------------------------
\* The length limit of validate_url
MaxUrlLen == 2048

\* String literals of the code as character sequences
Str_GET == <<"G","E","T">>

Str_POST == <<"P","O","S","T">>

Str_PUT == <<"P","U","T">>

Str_DELETE == <<"D","E","L","E","T","E">>

Str_PATCH == <<"P","A","T","C","H">>

Str_HEAD == <<"H","E","A","D">>

Str_OPTIONS == <<"O","P","T","I","O","N","S">>

Str_http == <<"h","t","t","p">>

Str_https == <<"h","t","t","p","s">>

\* url::Url::parse, as far as validate_url depends on it: the scheme is the
\* text before the first ':' (a letter, then letters, digits, '+', '-', '.'),
\* lower-cased; a string without one is a relative reference and an error.
\* The special schemes other than file need a non-empty host after any
\* number of slashes; file and the other schemes may have none.
is_alpha(c) == index_in(Lower, c) # 0 \/ index_in(Upper, c) # 0

is_scheme_char(c) == is_alpha(c) \/ c \in Digits \/ c \in {"+", "-", "."}

SpecialSchemes ==
    { Str_http, Str_https, <<"w","s">>, <<"w","s","s">>, <<"f","t","p">> }

skip_slashes(s) ==
    IF positions_not_in(s, {"/", "\\"}) = {} THEN <<>>
    ELSE SubSeq(s, Min(positions_not_in(s, {"/", "\\"})), Len(s))

\* the host of an authority: after the last '@', before the port's ':'
after_last_at(s) ==
    IF positions_in(s, {"@"}) = {} THEN s
    ELSE SubSeq(s, Max(positions_in(s, {"@"})) + 1, Len(s))

host_of_authority(a) == take_until(after_last_at(a), {":"})

port_of_authority(h) ==
    IF is_none(find(h, ":")) THEN <<>>
    ELSE SubSeq(h, unwrap(find(h, ":")) + 2, Len(h))

\* The Result of Url::parse: the parsed scheme and host, or an error
UrlOk(scheme, host) == [ok |-> TRUE, scheme |-> scheme, host |-> host, err |-> ""]

UrlErr(e) == [ok |-> FALSE, scheme |-> <<>>, host |-> None, err |-> e]

\* a special scheme: the host is what follows the slashes, and is needed
parse_special(scheme, authority) ==
    IF host_of_authority(authority) = <<>> THEN UrlErr("empty host")
    ELSE IF \E i \in 1..Len(port_of_authority(after_last_at(authority))) :
                port_of_authority(after_last_at(authority))[i] \notin Digits
    THEN UrlErr("invalid port number")
    ELSE UrlOk(scheme, Some(host_of_authority(authority)))

\* file and the other schemes: a host only after "//", and it may be empty
parse_non_special(scheme, rest) ==
    IF starts_with(rest, <<"/", "/">>)
       /\ take_until(SubSeq(rest, 3, Len(rest)), {"/", "?", "#"}) # <<>>
    THEN UrlOk(scheme, Some(host_of_authority(
                   take_until(SubSeq(rest, 3, Len(rest)), {"/", "?", "#"}))))
    ELSE UrlOk(scheme, None)

parse_after_scheme(scheme, rest) ==
    IF scheme \in SpecialSchemes
    THEN parse_special(scheme, take_until(skip_slashes(rest), {"/", "\\", "?", "#"}))
    ELSE parse_non_special(scheme, rest)

has_scheme(scheme_raw) ==
    /\ scheme_raw # <<>>
    /\ is_alpha(scheme_raw[1])
    /\ \A i \in 1..Len(scheme_raw) : is_scheme_char(scheme_raw[i])

parse_at_colon(input, colon) ==
    IF is_none(colon) \/ ~has_scheme(SubSeq(input, 1, unwrap_or(colon, 0)))
    THEN UrlErr("relative URL without a base")
    ELSE parse_after_scheme(to_lowercase(SubSeq(input, 1, unwrap(colon))),
                            SubSeq(input, unwrap(colon) + 2, Len(input)))

Url_parse(input) == parse_at_colon(input, find(input, ":"))

\* Result<String, String>
Ok(v) == [ok |-> TRUE, val |-> v, err |-> ""]

Err(e) == [ok |-> FALSE, val |-> <<>>, err |-> e]

\* validate_url after the length check, on the outcome of Url::parse
validate_parsed(url_str, parsed_url) ==
    IF ~parsed_url.ok THEN Err("Invalid URL")
    ELSE IF parsed_url.scheme # Str_http /\ parsed_url.scheme # Str_https
    THEN Err("Unsupported URL scheme")
    ELSE IF is_none(parsed_url.host)
    THEN Err("URL must have a valid host")
    ELSE Ok(url_str)

\* validate_url with the length tested after the scheme and the host
validate_url_length_last(url_str) ==
    IF ~validate_parsed(url_str, Url_parse(url_str)).ok
    THEN validate_parsed(url_str, Url_parse(url_str))
    ELSE IF Len(url_str) > MaxUrlLen THEN Err("URL too long")
    ELSE Ok(url_str)

validate_url(url_str) ==
    IF Len(url_str) > MaxUrlLen THEN Err("URL too long")
    ELSE validate_parsed(url_str, Url_parse(url_str))

valid_methods ==
    { Str_GET, Str_POST, Str_PUT, Str_DELETE, Str_PATCH, Str_HEAD, Str_OPTIONS }

\* HashMap::insert on a map held as a function
map_insert(m, k, v) ==
    [x \in (DOMAIN m) \cup {k} |-> IF x = k THEN v ELSE m[x]]

\* HashMap::remove
map_remove(m, k) == [x \in (DOMAIN m) \ {k} |-> m[x]]

\* HashMap::get
map_get(m, k) == IF k \in DOMAIN m THEN Some(m[k]) ELSE None

EmptyMap == [x \in {} |-> <<>>]

\* The locals of parse_block_lines before its loop
BlockInit ==
    [ method |-> <<>>, url |-> <<>>, headers |-> EmptyMap, body_lines |-> <<>>,
      request_line_number |-> None, in_body |-> FALSE ]

\* match_validate_url with the one-based number of the line (the number the
\* error message prints) as the anchor
match_validate_url_one_based(st, potential_method, validated, idx) ==
    IF validated.ok
    THEN [st EXCEPT !.method = potential_method,
                    !.url = validated.val,
                    !.request_line_number = Some(idx + 1)]
    ELSE st

\* The match on validate_url(parts[1]): Ok sets method, url and
\* request_line_number; Err goes on with the next line, request_line_number
\* still unset
match_validate_url(st, potential_method, validated, idx) ==
    IF validated.ok
    THEN [st EXCEPT !.method = potential_method,
                    !.url = validated.val,
                    !.request_line_number = Some(idx)]
    ELSE st

\* try_request_line that stores the method token as the text writes it
try_request_line_as_written(st, parts, idx) ==
    IF Len(parts) >= 2 /\ to_uppercase(parts[1]) \in valid_methods
    THEN match_validate_url(st, parts[1], validate_url(parts[2]), idx)
    ELSE st

\* try_request_line that accepts the URL token without validate_url
try_request_line_unvalidated(st, parts, idx) ==
    IF Len(parts) >= 2 /\ to_uppercase(parts[1]) \in valid_methods
    THEN match_validate_url(st, to_uppercase(parts[1]), Ok(parts[2]), idx)
    ELSE st

\* The request-line branch of the loop body, on the tokens of the line
try_request_line(st, parts, idx) ==
    IF Len(parts) >= 2 /\ to_uppercase(parts[1]) \in valid_methods
    THEN match_validate_url(st, to_uppercase(parts[1]), validate_url(parts[2]), idx)
    ELSE st

\* insert_header that keeps the value a name already has
insert_header_first_wins(st, trimmed, colon_idx) ==
    IF trim(SubSeq(trimmed, 1, colon_idx)) \in DOMAIN st.headers THEN st
    ELSE [st EXCEPT !.headers =
            map_insert(@, trim(SubSeq(trimmed, 1, colon_idx)),
                          trim(SubSeq(trimmed, colon_idx + 2, Len(trimmed))))]

\* The header branch: name and value around the first ':'
insert_header(st, trimmed, colon_idx) ==
    [st EXCEPT !.headers =
        map_insert(@, trim(SubSeq(trimmed, 1, colon_idx)),
                      trim(SubSeq(trimmed, colon_idx + 2, Len(trimmed))))]

\* block_step_trimmed in which a line without ':' ends the header section
\* and starts the body
block_step_trimmed_colonless_body(st, line, trimmed, idx) ==
    IF is_none(st.request_line_number) /\ trimmed = <<>> THEN st
    ELSE IF starts_with(trimmed, <<"#">>) \/ starts_with(trimmed, <<"/", "/">>) THEN st
    ELSE IF is_none(st.request_line_number)
    THEN try_request_line(st, split_whitespace(trimmed), idx)
    ELSE IF st.in_body THEN [st EXCEPT !.body_lines = Append(@, line)]
    ELSE IF trimmed = <<>> THEN [st EXCEPT !.in_body = TRUE]
    ELSE IF is_some(find(trimmed, ":"))
    THEN insert_header(st, trimmed, unwrap(find(trimmed, ":")))
    ELSE [st EXCEPT !.in_body = TRUE]

\* One iteration of the loop of parse_block_lines, on the line at idx
block_step_trimmed(st, line, trimmed, idx) ==
    IF is_none(st.request_line_number) /\ trimmed = <<>> THEN st
    ELSE IF starts_with(trimmed, <<"#">>) \/ starts_with(trimmed, <<"/", "/">>) THEN st
    ELSE IF is_none(st.request_line_number)
    THEN try_request_line(st, split_whitespace(trimmed), idx)
    ELSE IF st.in_body THEN [st EXCEPT !.body_lines = Append(@, line)]
    ELSE IF trimmed = <<>> THEN [st EXCEPT !.in_body = TRUE]
    ELSE IF is_some(find(trimmed, ":"))
    THEN insert_header(st, trimmed, unwrap(find(trimmed, ":")))
    ELSE st

block_step(st, line, idx) == block_step_trimmed(st, line, trim(line), idx)

RECURSIVE block_loop(_, _, _, _)
block_loop(lines, idx, end_idx, st) ==
    IF idx >= end_idx THEN st
    ELSE block_loop(lines, idx + 1, end_idx, block_step(st, lines[idx + 1], idx))

\* The value parse_block_lines returns from its locals after the loop
block_result(st) ==
    IF is_none(st.request_line_number) THEN None
    ELSE Some([ method |-> st.method,
                url |-> st.url,
                headers |-> st.headers,
                body |-> IF st.body_lines = <<>> THEN None
                         ELSE Some(trim(join(st.body_lines, <<"\n">>))),
                line_number |-> unwrap(st.request_line_number) ])

\* Option<HttpRequest> of the block lines[start_idx .. end_idx)
parse_block_lines(lines, start_idx, end_idx) ==
    block_result(block_loop(lines, start_idx, end_idx, BlockInit))

\* The blocks [start, end) the loop of parse_http_file hands to
\* parse_block_lines: one at every delimiter line and the last one after
\* the loop
RECURSIVE blocks_loop(_, _, _, _)
blocks_loop(lines, line_idx, current_block_start, blocks) ==
    IF line_idx >= Len(lines)
    THEN Append(blocks, <<current_block_start, Len(lines)>>)
    ELSE IF starts_with(trim(lines[line_idx + 1]), <<"#", "#", "#">>)
    THEN blocks_loop(lines, line_idx + 1, line_idx + 1,
                     Append(blocks, <<current_block_start, line_idx>>))
    ELSE blocks_loop(lines, line_idx + 1, current_block_start, blocks)

attempted_blocks(lines) == blocks_loop(lines, 0, 0, <<>>)

\* file_loop that puts each block's request in front of the earlier ones
RECURSIVE file_loop_prepending(_, _, _, _)
file_loop_prepending(lines, line_idx, current_block_start, requests) ==
    IF line_idx >= Len(lines)
    THEN parse_block_lines(lines, current_block_start, Len(lines)) \o requests
    ELSE IF starts_with(trim(lines[line_idx + 1]), <<"#", "#", "#">>)
    THEN file_loop_prepending(lines, line_idx + 1, line_idx + 1,
                              parse_block_lines(lines, current_block_start, line_idx) \o requests)
    ELSE file_loop_prepending(lines, line_idx + 1, current_block_start, requests)

\* file_loop without the block after the last delimiter
RECURSIVE file_loop_no_last(_, _, _, _)
file_loop_no_last(lines, line_idx, current_block_start, requests) ==
    IF line_idx >= Len(lines)
    THEN requests
    ELSE IF starts_with(trim(lines[line_idx + 1]), <<"#", "#", "#">>)
    THEN file_loop_no_last(lines, line_idx + 1, line_idx + 1,
                           requests \o parse_block_lines(lines, current_block_start, line_idx))
    ELSE file_loop_no_last(lines, line_idx + 1, current_block_start, requests)

\* file_loop that returns at the first block that yields no request
RECURSIVE file_loop_stopping(_, _, _, _)
file_loop_stopping(lines, line_idx, current_block_start, requests) ==
    IF line_idx >= Len(lines)
    THEN requests \o parse_block_lines(lines, current_block_start, Len(lines))
    ELSE IF starts_with(trim(lines[line_idx + 1]), <<"#", "#", "#">>)
    THEN IF parse_block_lines(lines, current_block_start, line_idx) = <<>>
         THEN requests
         ELSE file_loop_stopping(lines, line_idx + 1, line_idx + 1,
                                 requests \o parse_block_lines(lines, current_block_start, line_idx))
    ELSE file_loop_stopping(lines, line_idx + 1, current_block_start, requests)

\* file_loop that lets every block run on to the end of the text
RECURSIVE file_loop_open_ended(_, _, _, _)
file_loop_open_ended(lines, line_idx, current_block_start, requests) ==
    IF line_idx >= Len(lines)
    THEN requests \o parse_block_lines(lines, current_block_start, Len(lines))
    ELSE IF starts_with(trim(lines[line_idx + 1]), <<"#", "#", "#">>)
    THEN file_loop_open_ended(lines, line_idx + 1, line_idx + 1,
                              requests \o parse_block_lines(lines, current_block_start, Len(lines)))
    ELSE file_loop_open_ended(lines, line_idx + 1, current_block_start, requests)

\* The loop of parse_http_file over the lines from line_idx on, with the
\* locals current_block_start and requests, and the last block after it
RECURSIVE file_loop(_, _, _, _)
file_loop(lines, line_idx, current_block_start, requests) ==
    IF line_idx >= Len(lines)
    THEN requests \o parse_block_lines(lines, current_block_start, Len(lines))
    ELSE IF starts_with(trim(lines[line_idx + 1]), <<"#", "#", "#">>)
    THEN file_loop(lines, line_idx + 1, line_idx + 1,
                   requests \o parse_block_lines(lines, current_block_start, line_idx))
    ELSE file_loop(lines, line_idx + 1, current_block_start, requests)

\* Vec<HttpRequest>
parse_http_file(content) == file_loop(lines_of(content), 0, 0, <<>>)

\* ------------------------------------------------------------------------
\* executor.rs
\* ------------------------------------------------------------------------
\* The methods execute_request builds a call for; any other is an
\* "Unsupported HTTP method" error returned before anything is sent
executor_methods ==
    { Str_GET, Str_POST, Str_PUT, Str_DELETE, Str_PATCH, Str_HEAD }

\* ------------------------------------------------------------------------
\* Inputs of the handlers
\* ------------------------------------------------------------------------
\* Bounds of the model
MaxTasks == 2

MaxLine == 3

MaxTranscript == 2

\* Lines the document texts are built from
Line_get_a == <<"G","E","T"," ","h","t","t","p",":","/","/","a">>

Line_post_b == <<"p","o","s","t"," ","h","t","t","p",":","/","/","b">>

Line_put_a == <<"P","U","T"," ","h","t","t","p",":","/","/","a">>

Line_options_a == <<"O","P","T","I","O","N","S"," ","h","t","t","p",":","/","/","a">>

Line_get_ftp == <<"G","E","T"," ","f","t","p",":","/","/","a">>

Line_delim == <<"#","#","#">>

Line_comment == <<"#"," ","c">>

\* The document texts the client sends, by name
TextTable ==
    [ two_blocks  |-> join(<<Line_get_a, Line_delim, Line_post_b>>, <<"\n">>),
      bad_options |-> join(<<Line_get_ftp, Line_options_a>>, <<"\n">>),
      comment_put |-> join(<<Line_comment, Line_put_a>>, <<"\n">>) ]

Texts == DOMAIN TextTable

\* The characters of a text
Content(text) == TextTable[text]

\* Document identifiers (lsp_types::Url), held by their serialisation
Uris == { "file:///w/test/a.http", "file:///w/b.http" }

\* serde_json::Value arguments of a command
JsonString(v) == [kind |-> "string", str |-> v, num |-> 0]

JsonNumber(n) == [kind |-> "number", str |-> "", num |-> n]

JsonNull == [kind |-> "null", str |-> "", num |-> 0]

\* Value::as_str
as_str(v) == IF v.kind = "string" THEN Some(v.str) ELSE None

\* Value::as_u64
as_u64(v) == IF v.kind = "number" /\ v.num >= 0 THEN Some(v.num) ELSE None

\* Url::parse on a document identifier string
Uri_parse(uri_str) == IF uri_str \in Uris THEN Some(uri_str) ELSE None

\* Lines a client asks about
Lines == 0..MaxLine

\* Calls of workspace/executeCommand a client makes: the command with a
\* document and a line (a line that is no u64 among them), and the calls
\* that end before the store is read
WellFormedArguments ==
    { <<JsonString(u), JsonNumber(n)>> : u \in Uris, n \in Lines \cup {-1} }

CommandCalls ==
    { <<"http.sendRequest", a>> : a \in WellFormedArguments }
    \cup { <<"http.sendRequest", <<>>>>,
           <<"http.sendRequest", <<JsonNull, JsonNumber(0)>>>>,
           <<"http.sendRequest", <<JsonString("not a uri"), JsonNumber(0)>>>>,
           <<"http.other", <<JsonString("file:///w/b.http"), JsonNumber(0)>>>> }

\* Content-change vectors of textDocument/didChange: none, one, or two
\* differing changes
ChangeVectors ==
    { <<>> } \cup { <<x>> : x \in Texts }
             \cup { <<"two_blocks", "comment_put">>, <<"comment_put", "bad_options">> }

\* What the executor's HTTP call can come back with
Responses == { [status |-> 200, status_text |-> "OK"] }

ExecutorErrors == { "timeout" }

\* What appending to the transcript file can come to
FileOutcomes == { "written", "open_failed", "write_failed" }

\* ------------------------------------------------------------------------
\* lsp_server.rs: state
\* ------------------------------------------------------------------------
\* document_map : HttpLspServer.document_map, the HashMap<Url, String>
\* lock         : the holder of the tokio Mutex around document_map, if any
\* tasks        : the handler invocations in progress, one per task slot, with
\*                their arguments, locals and position (pc); the fields
\*                calls, appended and notes record what the invocation has
\*                done so far (executor calls, transcript records appended,
\*                notifications sent to the client)
\* transcript   : the records appended to http-responses.http
\* issued       : an affordance (title and command arguments) the client got
\*                from code_lens or code_action and still shows
\* written      : history of the store: per document the text the last
\*                completed write (did_open, did_change, did_close) was
\*                called with; a task's field admissible holds the values
\*                of written for its document at its call and since
\* parse_run    : a run of the parser on a text of its own (ParseSpec)
VARIABLES document_map, lock, tasks, transcript, issued, written, parse_run

vars == <<document_map, lock, tasks, transcript, issued, written, parse_run>>

Tasks == 1..MaxTasks

IdleTask ==
    [ pc |-> "idle", handler |-> "", uri |-> "", line |-> 0, text |-> "",
      content_changes |-> <<>>, command |-> "", arguments |-> <<>>,
      affordance |-> None, content |-> None, request |-> None,
      response |-> None, result |-> None,
      calls |-> 0, appended |-> 0, notes |-> <<>>, admissible |-> {} ]

NoParseRun == [text |-> <<>>, requests |-> None]

\* HttpLspServer::new
Init ==
    /\ document_map = EmptyMap
    /\ lock = None
    /\ tasks = [t \in Tasks |-> IdleTask]
    /\ transcript = <<>>
    /\ issued = None
    /\ written = EmptyMap
    /\ parse_run = NoParseRun

\* Client::log_message and Client::show_message, as the notification sent
log_message(type, msg) == [via |-> "log_message", type |-> type, msg |-> msg]

show_message(type, msg) == [via |-> "show_message", type |-> type, msg |-> msg]

\* send_request_command with the line as the editor numbers it, from one
send_request_command_one_based(uri, request) ==
    [ title |-> request.method,
      command |-> "http.sendRequest",
      arguments |-> <<JsonString(uri), JsonNumber(request.line_number + 1)>> ]

\* The Command both affordances carry
send_request_command(uri, request) ==
    [ title |-> request.method,
      command |-> "http.sendRequest",
      arguments |-> <<JsonString(uri), JsonNumber(request.line_number)>> ]

\* closest_at_or_before without max_by_key: the first request at or before
\* the line
first_at_or_before(requests, line) ==
    IF { i \in 1..Len(requests) : requests[i].line_number <= line } = {} THEN None
    ELSE Some(requests[Min({ i \in 1..Len(requests) : requests[i].line_number <= line })])

\* requests.iter().filter(|r| r.line_number <= line).max_by_key(|r| r.line_number)
\* (max_by_key returns the last of several maximal elements)
closest_at_or_before(requests, line) ==
    LET cand == { i \in 1..Len(requests) : requests[i].line_number <= line }
    IN  IF cand = {} THEN None
        ELSE Some(requests[CHOOSE i \in cand : \A j \in cand :
                      \/ requests[j].line_number < requests[i].line_number
                      \/ (requests[j].line_number = requests[i].line_number /\ j <= i)])

\* first_at_line with the nearest-preceding match of code_action instead of
\* the exact match
first_at_line_nearest(requests, line_number) ==
    closest_at_or_before(requests, line_number)

\* first_at_line with the line taken as a position in the vector
first_at_line_by_index(requests, line_number) ==
    IF line_number < Len(requests) THEN Some(requests[line_number + 1]) ELSE None

\* requests.iter().filter(|r| r.line_number == line_number).next()
first_at_line(requests, line_number) ==
    LET cand == { i \in 1..Len(requests) : requests[i].line_number = line_number }
    IN  IF cand = {} THEN None
        ELSE Some(requests[CHOOSE i \in cand : \A j \in cand : i <= j])

\* lenses_of with one-based lens positions
lenses_one_based(uri, requests) ==
    [ i \in 1..Len(requests) |->
        [ line |-> requests[i].line_number + 1,
          command |-> send_request_command(uri, requests[i]) ] ]

\* The Vec<CodeLens> built from the parsed requests
lenses_of(uri, requests) ==
    [ i \in 1..Len(requests) |->
        [ line |-> requests[i].line_number,
          command |-> send_request_command(uri, requests[i]) ] ]

\* The record appended to the transcript: format_response_output(request,
\* response) under the separator and timestamp header
format_response_output(request, response) ==
    [ method |-> request.method, url |-> request.url,
      headers |-> request.headers, body |-> request.body,
      status |-> response.status, status_text |-> response.status_text ]

\* HttpResponse::summary
summary(response) == <<response.status, response.status_text>>

\* ------------------------------------------------------------------------
\* lsp_server.rs: handlers.  A handler runs in a task slot; each action is
\* the code between two await points.
\* ------------------------------------------------------------------------
Set(t, r) ==
    /\ tasks' = [tasks EXCEPT ![t] = r]
    /\ UNCHANGED parse_run

\* A handler that reads the store for uri is called: what it may observe is
\* the value of the last completed write
Called(task) ==
    [task EXCEPT !.admissible = {map_get(written, task.uri)}]

\* A write of value (Some(text), or None for a removal) to uri completes in
\* task t, which becomes r: the history records it, and so does every task
\* that has been called for uri and has not read the store yet
awaits_read(task, uri) ==
    /\ task.uri = uri
    /\ task.handler \in {"code_action", "code_lens", "execute_command"}
    /\ task.pc \in {"lens_log", "lock", "locked"}

WriteCompleted(t, r, uri, value) ==
    /\ written' = IF is_some(value) THEN map_insert(written, uri, unwrap(value))
                  ELSE map_remove(written, uri)
    /\ tasks' = [x \in Tasks |->
                   IF x = t THEN r
                   ELSE IF awaits_read(tasks[x], uri)
                   THEN [tasks[x] EXCEPT !.admissible = @ \cup {value}]
                   ELSE tasks[x]]
    /\ UNCHANGED parse_run

Note(task, n) == [task EXCEPT !.notes = Append(@, n)]

\* did_open, up to the lock().await
did_open(t, uri, text) ==
    /\ tasks[t].pc = "idle"
    /\ Set(t, [IdleTask EXCEPT !.pc = "lock", !.handler = "did_open",
                               !.uri = uri, !.text = text])
    /\ UNCHANGED <<document_map, lock, transcript, issued, written>>

\* did_change: without a first content change nothing is done
did_change(t, uri, content_changes) ==
    /\ tasks[t].pc = "idle"
    /\ Set(t, [IdleTask EXCEPT
                 !.pc = IF content_changes = <<>> THEN "done" ELSE "lock",
                 !.handler = "did_change", !.uri = uri,
                 !.content_changes = content_changes])
    /\ UNCHANGED <<document_map, lock, transcript, issued, written>>

\* did_close, up to the lock().await
did_close(t, uri) ==
    /\ tasks[t].pc = "idle"
    /\ Set(t, [IdleTask EXCEPT !.pc = "lock", !.handler = "did_close", !.uri = uri])
    /\ UNCHANGED <<document_map, lock, transcript, issued, written>>

\* code_action, up to the lock().await
code_action(t, uri, line) ==
    /\ tasks[t].pc = "idle"
    /\ Set(t, Called([IdleTask EXCEPT !.pc = "lock", !.handler = "code_action",
                                      !.uri = uri, !.line = line]))
    /\ UNCHANGED <<document_map, lock, transcript, issued, written>>

\* code_lens, up to its first log_message().await
code_lens(t, uri) ==
    /\ tasks[t].pc = "idle"
    /\ Set(t, Called([IdleTask EXCEPT !.pc = "lens_log", !.handler = "code_lens",
                                      !.uri = uri]))
    /\ UNCHANGED <<document_map, lock, transcript, issued, written>>

\* code_lens: "Code lens requested for" is logged, then lock().await
code_lens_logged(t) ==
    /\ tasks[t].pc = "lens_log"
    /\ Set(t, Note([tasks[t] EXCEPT !.pc = "lock"],
                   log_message("INFO", "Code lens requested")))
    /\ UNCHANGED <<document_map, lock, transcript, issued, written>>

\* execute_command without the test of args.len(): args[0] and args[1] are
\* indexed whatever the arguments are, and the index out of bounds panics
execute_command_unchecked(t, command, arguments, affordance) ==
    /\ tasks[t].pc = "idle"
    /\ Len(transcript) < MaxTranscript
    /\ LET base == [IdleTask EXCEPT !.handler = "execute_command",
                                    !.command = command, !.arguments = arguments,
                                    !.affordance = affordance]
       IN  IF command # "http.sendRequest"
           THEN Set(t, [base EXCEPT !.pc = "done"])
           ELSE IF Len(arguments) < 2
           THEN Set(t, [base EXCEPT !.pc = "panicked"])
           ELSE IF is_none(Uri_parse(unwrap_or(as_str(arguments[1]), "")))
           THEN Set(t, [base EXCEPT !.pc = "invalid_uri_log",
                                    !.line = unwrap_or(as_u64(arguments[2]), 0)])
           ELSE Set(t, Called([base EXCEPT
                                 !.pc = "lock",
                                 !.uri = unwrap(Uri_parse(unwrap_or(as_str(arguments[1]), ""))),
                                 !.line = unwrap_or(as_u64(arguments[2]), 0)]))
    /\ UNCHANGED <<document_map, lock, transcript, issued, written>>

\* execute_command, up to its first await: another command or fewer than
\* two arguments return Ok(None); an argument that is no URI is logged
execute_command(t, command, arguments, affordance) ==
    /\ tasks[t].pc = "idle"
    /\ Len(transcript) < MaxTranscript
    /\ LET base == [IdleTask EXCEPT !.handler = "execute_command",
                                    !.command = command, !.arguments = arguments,
                                    !.affordance = affordance]
       IN  IF command # "http.sendRequest" \/ Len(arguments) < 2
           THEN Set(t, [base EXCEPT !.pc = "done"])
           ELSE LET uri_str == unwrap_or(as_str(arguments[1]), "")
                    line_number == unwrap_or(as_u64(arguments[2]), 0)
                IN  IF is_none(Uri_parse(uri_str))
                    THEN Set(t, [base EXCEPT !.pc = "invalid_uri_log",
                                             !.line = line_number])
                    ELSE Set(t, Called([base EXCEPT !.pc = "lock",
                                                    !.uri = unwrap(Uri_parse(uri_str)),
                                                    !.line = line_number]))
    /\ UNCHANGED <<document_map, lock, transcript, issued, written>>

\* execute_command: "Invalid URI" is logged and Ok(None) returned
invalid_uri_logged(t) ==
    /\ tasks[t].pc = "invalid_uri_log"
    /\ Set(t, Note([tasks[t] EXCEPT !.pc = "done"],
                   log_message("ERROR", "Invalid URI")))
    /\ UNCHANGED <<document_map, lock, transcript, issued, written>>

\* mutex_lock that does not wait for the mutex to be free
mutex_lock_unchecked(t) ==
    /\ tasks[t].pc = "lock"
    /\ lock' = Some(t)
    /\ Set(t, [tasks[t] EXCEPT !.pc = "locked"])
    /\ UNCHANGED <<document_map, transcript, issued, written>>

\* self.document_map.lock().await completes: the mutex is free and taken
mutex_lock(t) ==
    /\ tasks[t].pc = "lock"
    /\ is_none(lock)
    /\ lock' = Some(t)
    /\ Set(t, [tasks[t] EXCEPT !.pc = "locked"])
    /\ UNCHANGED <<document_map, transcript, issued, written>>

\* did_open: insert under the lock; the guard is dropped with the statement
did_open_insert(t) ==
    /\ tasks[t].pc = "locked" /\ tasks[t].handler = "did_open"
    /\ document_map' = map_insert(document_map, tasks[t].uri, tasks[t].text)
    /\ lock' = None
    /\ WriteCompleted(t, [tasks[t] EXCEPT !.pc = "open_log"],
                      tasks[t].uri, Some(tasks[t].text))
    /\ UNCHANGED <<transcript, issued>>

\* did_open: "Opened document" is logged
did_open_logged(t) ==
    /\ tasks[t].pc = "open_log"
    /\ Set(t, Note([tasks[t] EXCEPT !.pc = "done"],
                   log_message("INFO", "Opened document")))
    /\ UNCHANGED <<document_map, lock, transcript, issued, written>>

\* did_change_insert with content_changes.last()
did_change_insert_last(t) ==
    /\ tasks[t].pc = "locked" /\ tasks[t].handler = "did_change"
    /\ document_map' = map_insert(document_map, tasks[t].uri,
                                  tasks[t].content_changes[Len(tasks[t].content_changes)])
    /\ lock' = None
    /\ WriteCompleted(t, [tasks[t] EXCEPT !.pc = "done"],
                      tasks[t].uri, Some(Head(tasks[t].content_changes)))
    /\ UNCHANGED <<transcript, issued>>

\* did_change: the text of content_changes.first() replaces the entry
did_change_insert(t) ==
    /\ tasks[t].pc = "locked" /\ tasks[t].handler = "did_change"
    /\ document_map' = map_insert(document_map, tasks[t].uri,
                                  Head(tasks[t].content_changes))
    /\ lock' = None
    /\ WriteCompleted(t, [tasks[t] EXCEPT !.pc = "done"],
                      tasks[t].uri, Some(Head(tasks[t].content_changes)))
    /\ UNCHANGED <<transcript, issued>>

\* did_close: the entry is removed
did_close_remove(t) ==
    /\ tasks[t].pc = "locked" /\ tasks[t].handler = "did_close"
    /\ document_map' = map_remove(document_map, tasks[t].uri)
    /\ lock' = None
    /\ WriteCompleted(t, [tasks[t] EXCEPT !.pc = "done"], tasks[t].uri, None)
    /\ UNCHANGED <<transcript, issued>>

\* code_action_get that takes the text out of the map (HashMap::remove)
\* where the handler clones it
code_action_get_removing(t) ==
    /\ tasks[t].pc = "locked" /\ tasks[t].handler = "code_action"
    /\ LET content == map_get(document_map, tasks[t].uri)
       IN  IF is_some(content)
           THEN Set(t, [tasks[t] EXCEPT !.pc = "parse", !.content = content])
           ELSE Set(t, [tasks[t] EXCEPT !.pc = "done", !.result = None])
    /\ document_map' = map_remove(document_map, tasks[t].uri)
    /\ lock' = None
    /\ UNCHANGED <<transcript, issued, written>>

\* code_action: document_map.get(&uri) under the lock.  Some: the content is
\* cloned and the guard dropped.  None: Ok(None) is returned, which drops
\* the guard.
code_action_get(t) ==
    /\ tasks[t].pc = "locked" /\ tasks[t].handler = "code_action"
    /\ LET content == map_get(document_map, tasks[t].uri)
       IN  IF is_some(content)
           THEN Set(t, [tasks[t] EXCEPT !.pc = "parse", !.content = content])
           ELSE Set(t, [tasks[t] EXCEPT !.pc = "done", !.result = None])
    /\ lock' = None
    /\ UNCHANGED <<document_map, transcript, issued, written>>

\* code_action: the Ok(Some(vec![action])) or Ok(None) for the request found
code_action_result(task, request) ==
    [task EXCEPT !.pc = "done",
                 !.request = request,
                 !.result = IF is_some(request)
                            THEN Some(<<send_request_command(task.uri, unwrap(request))>>)
                            ELSE None]

\* code_action: parse, pick the closest request at or before the line
code_action_parse(t) ==
    /\ tasks[t].pc = "parse" /\ tasks[t].handler = "code_action"
    /\ Set(t, code_action_result(tasks[t],
                closest_at_or_before(parse_http_file(Content(unwrap(tasks[t].content))),
                                     tasks[t].line)))
    /\ UNCHANGED <<document_map, lock, transcript, issued, written>>

\* locked_get without the drop of the guard after the clone: the guard lives
\* on while the handler parses
locked_get_holding(t) ==
    /\ tasks[t].pc = "locked"
    /\ tasks[t].handler \in {"code_lens", "execute_command"}
    /\ LET content == map_get(document_map, tasks[t].uri)
       IN  IF is_some(content)
           THEN Set(t, [tasks[t] EXCEPT !.pc = "parse", !.content = content])
           ELSE Set(t, [tasks[t] EXCEPT !.pc = "not_found_log"])
    /\ UNCHANGED <<document_map, lock, transcript, issued, written>>

\* code_lens and execute_command: document_map.get(&uri) under the lock.
\* Some: the content is cloned and the guard dropped.  None: the handler
\* goes on to log_message().await with the guard still alive.
locked_get(t) ==
    /\ tasks[t].pc = "locked"
    /\ tasks[t].handler \in {"code_lens", "execute_command"}
    /\ LET content == map_get(document_map, tasks[t].uri)
       IN  IF is_some(content)
           THEN /\ Set(t, [tasks[t] EXCEPT !.pc = "parse", !.content = content])
                /\ lock' = None
           ELSE /\ Set(t, [tasks[t] EXCEPT !.pc = "not_found_log"])
                /\ UNCHANGED lock
    /\ UNCHANGED <<document_map, transcript, issued, written>>

\* not_found_logged with the message shown to the user instead of logged
not_found_shown(t) ==
    /\ tasks[t].pc = "not_found_log"
    /\ Set(t, Note([tasks[t] EXCEPT !.pc = "done", !.result = None],
                   show_message("ERROR", "Document not found")))
    /\ lock' = None
    /\ UNCHANGED <<document_map, transcript, issued, written>>

\* code_lens and execute_command: "Document not found" is logged (WARNING
\* by code_lens, ERROR by execute_command) and Ok(None) returned, which
\* drops the guard
not_found_logged(t) ==
    /\ tasks[t].pc = "not_found_log"
    /\ Set(t, Note([tasks[t] EXCEPT !.pc = "done", !.result = None],
                   log_message(IF tasks[t].handler = "code_lens"
                               THEN "WARNING" ELSE "ERROR",
                               "Document not found")))
    /\ lock' = None
    /\ UNCHANGED <<document_map, transcript, issued, written>>

\* code_lens: parse, then "Found n HTTP requests" is logged
code_lens_parse(t) ==
    /\ tasks[t].pc = "parse" /\ tasks[t].handler = "code_lens"
    /\ Set(t, Note([tasks[t] EXCEPT !.pc = "lens_build"],
                   log_message("INFO", "Found HTTP requests")))
    /\ UNCHANGED <<document_map, lock, transcript, issued, written>>

\* code_lens_build over a parser that keeps its requests vector between
\* calls: the requests found before (here those that were executed and
\* recorded) come first in what it returns
code_lens_build_keeping(t) ==
    /\ tasks[t].pc = "lens_build"
    /\ Set(t, [tasks[t] EXCEPT
                 !.pc = "done",
                 !.result = Some(lenses_of(tasks[t].uri,
                               [ i \in 1..Len(transcript) |->
                                   [ method |-> transcript[i].method,
                                     url |-> transcript[i].url,
                                     headers |-> transcript[i].headers,
                                     body |-> transcript[i].body,
                                     line_number |-> 0 ] ]
                               \o parse_http_file(Content(unwrap(tasks[t].content)))))])
    /\ UNCHANGED <<document_map, lock, transcript, issued, written>>

\* code_lens: one lens per request, Ok(Some(lenses))
code_lens_build(t) ==
    /\ tasks[t].pc = "lens_build"
    /\ Set(t, [tasks[t] EXCEPT
                 !.pc = "done",
                 !.result = Some(lenses_of(tasks[t].uri,
                               parse_http_file(Content(unwrap(tasks[t].content)))))])
    /\ UNCHANGED <<document_map, lock, transcript, issued, written>>

\* execute_command: with a request go on to log "Executing", with none
\* return Ok(None)
execute_command_selected(task, request) ==
    IF is_some(request)
    THEN [task EXCEPT !.pc = "executing_log", !.request = request]
    ELSE [task EXCEPT !.pc = "done", !.result = None]

\* execute_command_parse that takes the lock again for the parse and keeps
\* the guard while the request is executed
execute_command_parse_locked(t) ==
    /\ tasks[t].pc = "parse" /\ tasks[t].handler = "execute_command"
    /\ lock = None
    /\ lock' = Some(t)
    /\ Set(t, execute_command_selected(tasks[t],
                first_at_line(parse_http_file(Content(unwrap(tasks[t].content))),
                              tasks[t].line)))
    /\ UNCHANGED <<document_map, transcript, issued, written>>

\* execute_command: parse, pick the first request at exactly the line
execute_command_parse(t) ==
    /\ tasks[t].pc = "parse" /\ tasks[t].handler = "execute_command"
    /\ Set(t, execute_command_selected(tasks[t],
                first_at_line(parse_http_file(Content(unwrap(tasks[t].content))),
                              tasks[t].line)))
    /\ UNCHANGED <<document_map, lock, transcript, issued, written>>

\* execute_command: "Executing" is logged and executor::execute_request
\* called: a method it has no arm for fails at once, any other is sent
execute_request(t) ==
    /\ tasks[t].pc = "executing_log"
    /\ LET logged == Note([tasks[t] EXCEPT !.calls = @ + 1],
                          log_message("INFO", "Executing request"))
       IN  IF unwrap(tasks[t].request).method \in executor_methods
           THEN Set(t, [logged EXCEPT !.pc = "http"])
           ELSE Set(t, [logged EXCEPT !.pc = "request_failed"])
    /\ UNCHANGED <<document_map, lock, transcript, issued, written>>

\* execute_request_err that calls the executor again after a failure
execute_request_err_retrying(t, e) ==
    /\ tasks[t].pc = "http"
    /\ Set(t, [tasks[t] EXCEPT !.pc = "executing_log"])
    /\ UNCHANGED <<document_map, lock, transcript, issued, written>>

\* The HTTP call fails (network error, timeout, undecodable body)
execute_request_err(t, e) ==
    /\ tasks[t].pc = "http"
    /\ Set(t, [tasks[t] EXCEPT !.pc = "request_failed"])
    /\ UNCHANGED <<document_map, lock, transcript, issued, written>>

\* request_failed_shown with the failure only logged, not shown
request_failed_logged(t) ==
    /\ tasks[t].pc = "request_failed"
    /\ Set(t, Note([tasks[t] EXCEPT !.pc = "done", !.result = None],
                   log_message("ERROR", "Request failed")))
    /\ UNCHANGED <<document_map, lock, transcript, issued, written>>

\* execute_command, Err arm: "Request failed" is shown, Ok(None) returned
request_failed_shown(t) ==
    /\ tasks[t].pc = "request_failed"
    /\ Set(t, Note([tasks[t] EXCEPT !.pc = "done", !.result = None],
                   show_message("ERROR", "Request failed")))
    /\ UNCHANGED <<document_map, lock, transcript, issued, written>>

\* execute_request_ok that formats the record from the request found in
\* the text the store holds when the response arrives
execute_request_ok_rereading(t, response, file) ==
    /\ tasks[t].pc = "http"
    /\ LET current == IF tasks[t].uri \in DOMAIN document_map
                      THEN closest_at_or_before(
                             parse_http_file(Content(document_map[tasks[t].uri])),
                             tasks[t].line)
                      ELSE None
           full_content == format_response_output(
                             IF is_some(current) THEN unwrap(current)
                             ELSE unwrap(tasks[t].request), response)
           got == [tasks[t] EXCEPT !.response = Some(response)]
       IN  CASE file = "written" ->
                  /\ transcript' = Append(transcript, full_content)
                  /\ Set(t, [got EXCEPT !.pc = "written_show", !.appended = @ + 1])
             [] file = "open_failed" ->
                  /\ Set(t, [got EXCEPT !.pc = "open_failed_show"])
                  /\ UNCHANGED transcript
             [] file = "write_failed" ->
                  /\ Set(t, [got EXCEPT !.pc = "done",
                                        !.result = Some(summary(response))])
                  /\ UNCHANGED transcript
    /\ UNCHANGED <<document_map, lock, issued, written>>

\* execute_request_ok with the output file opened for writing, not for
\* appending: the record replaces the file's content
execute_request_ok_truncating(t, response, file) ==
    /\ tasks[t].pc = "http"
    /\ LET full_content == format_response_output(unwrap(tasks[t].request), response)
           got == [tasks[t] EXCEPT !.response = Some(response)]
       IN  CASE file = "written" ->
                  /\ transcript' = <<full_content>>
                  /\ Set(t, [got EXCEPT !.pc = "written_show", !.appended = @ + 1])
             [] file = "open_failed" ->
                  /\ Set(t, [got EXCEPT !.pc = "open_failed_show"])
                  /\ UNCHANGED transcript
             [] file = "write_failed" ->
                  /\ Set(t, [got EXCEPT !.pc = "done",
                                        !.result = Some(summary(response))])
                  /\ UNCHANGED transcript
    /\ UNCHANGED <<document_map, lock, issued, written>>

\* The HTTP call succeeds; execute_command, Ok arm: the record is formatted
\* and appended to the output file.  A file that cannot be opened leads to
\* show_message(ERROR), a write that fails is only written to the log file
\* and the summary returned at once, a write that succeeds leads to
\* show_message(INFO).  (A failed write is taken to have written nothing.)
execute_request_ok(t, response, file) ==
    /\ tasks[t].pc = "http"
    /\ LET full_content == format_response_output(unwrap(tasks[t].request), response)
           got == [tasks[t] EXCEPT !.response = Some(response)]
       IN  CASE file = "written" ->
                  /\ transcript' = Append(transcript, full_content)
                  /\ Set(t, [got EXCEPT !.pc = "written_show", !.appended = @ + 1])
             [] file = "open_failed" ->
                  /\ Set(t, [got EXCEPT !.pc = "open_failed_show"])
                  /\ UNCHANGED transcript
             [] file = "write_failed" ->
                  /\ Set(t, [got EXCEPT !.pc = "done",
                                        !.result = Some(summary(response))])
                  /\ UNCHANGED transcript
    /\ UNCHANGED <<document_map, lock, issued, written>>

\* execute_command: the success message is shown, the summary returned
written_shown(t) ==
    /\ tasks[t].pc = "written_show"
    /\ Set(t, Note([tasks[t] EXCEPT
                      !.pc = "done",
                      !.result = Some(summary(unwrap(tasks[t].response)))],
                   show_message("INFO", "Response appended")))
    /\ UNCHANGED <<document_map, lock, transcript, issued, written>>

\* execute_command: "Failed to write response" is shown, the summary returned
open_failed_shown(t) ==
    /\ tasks[t].pc = "open_failed_show"
    /\ Set(t, Note([tasks[t] EXCEPT
                      !.pc = "done",
                      !.result = Some(summary(unwrap(tasks[t].response)))],
                   show_message("ERROR", "Failed to write response")))
    /\ UNCHANGED <<document_map, lock, transcript, issued, written>>

\* The commands a response of code_lens or code_action carries
commands_in(task) ==
    IF is_none(task.result) THEN {}
    ELSE IF task.handler = "code_action"
    THEN { unwrap(task.result)[i] : i \in 1..Len(unwrap(task.result)) }
    ELSE IF task.handler = "code_lens"
    THEN { unwrap(task.result)[i].command : i \in 1..Len(unwrap(task.result)) }
    ELSE {}

\* The handler has returned: the response goes to the client and the task
\* ends.  The client may show one of the affordances it was sent.
respond(t, keep) ==
    /\ tasks[t].pc = "done"
    /\ keep \in {issued} \cup { Some(c) : c \in commands_in(tasks[t]) }
    /\ issued' = keep
    /\ Set(t, IdleTask)
    /\ UNCHANGED <<document_map, lock, transcript, written>>

\* The steps of a handler that has been called
handler_step(t) ==
    \/ code_lens_logged(t)
    \/ invalid_uri_logged(t)
    \/ mutex_lock(t)
    \/ did_open_insert(t)
    \/ did_open_logged(t)
    \/ did_change_insert(t)
    \/ did_close_remove(t)
    \/ code_action_get(t)
    \/ code_action_parse(t)
    \/ locked_get(t)
    \/ not_found_logged(t)
    \/ code_lens_parse(t)
    \/ code_lens_build(t)
    \/ execute_command_parse(t)
    \/ execute_request(t)
    \/ \E e \in ExecutorErrors : execute_request_err(t, e)
    \/ request_failed_shown(t)
    \/ \E r \in Responses, f \in FileOutcomes : execute_request_ok(t, r, f)
    \/ written_shown(t)
    \/ open_failed_shown(t)

\* The client sends one message at a time and waits for the handler to
\* return: every handler, with every input, in one task slot.  A command is
\* invoked with any arguments, or with those of the affordance shown.
SeqTasks == { 1 }

Next ==
    \E t \in SeqTasks :
        \/ \E uri \in Uris, text \in Texts : did_open(t, uri, text)
        \/ \E uri \in Uris, cc \in ChangeVectors : did_change(t, uri, cc)
        \/ \E uri \in Uris : did_close(t, uri)
        \/ \E uri \in Uris, line \in Lines : code_action(t, uri, line)
        \/ \E uri \in Uris : code_lens(t, uri)
        \/ \E c \in CommandCalls : execute_command(t, c[1], c[2], None)
        \/ is_some(issued)
             /\ execute_command(t, unwrap(issued).command, unwrap(issued).arguments, issued)
        \/ handler_step(t)
        \/ \E keep \in {issued} \cup { Some(c) : c \in commands_in(tasks[t]) } :
               respond(t, keep)

Spec == Init /\ [][Next]_vars

\* ------------------------------------------------------------------------
\* The handlers run concurrently: a second message is handled while the
\* handler of the first is at an await point.  Fewer texts, lines and
\* argument vectors than in Spec.
\* ------------------------------------------------------------------------
ConcTexts == { "two_blocks", "comment_put" }

ConcChangeVectors == { <<x>> : x \in ConcTexts }

ConcLines == { MaxLine - 1 }

ConcCalls ==
    { <<"http.sendRequest", <<JsonString(u), JsonNumber(n)>>>> : u \in Uris, n \in ConcLines }
    \cup { <<"http.sendRequest", <<JsonNull, JsonNumber(0)>>>> }

NextConc ==
    \E t \in Tasks :
        \/ \E uri \in Uris, text \in ConcTexts : did_open(t, uri, text)
        \/ \E uri \in Uris, cc \in ConcChangeVectors : did_change(t, uri, cc)
        \/ \E uri \in Uris : did_close(t, uri)
        \/ \E uri \in Uris, line \in ConcLines : code_action(t, uri, line)
        \/ \E uri \in Uris : code_lens(t, uri)
        \/ \E c \in ConcCalls : execute_command(t, c[1], c[2], None)
        \/ handler_step(t)
        \/ respond(t, issued)

SpecConc == Init /\ [][NextConc]_vars

\* ------------------------------------------------------------------------
\* The parser on its own: parse_http_file applied to every text of at most
\* MaxLines lines drawn from PoolLines
\* ------------------------------------------------------------------------
MaxLines == 3

Line_header == <<"H",":"," ","v">>

Line_word == <<"x">>

Line_header_again == <<"H",":"," ","w">>

Line_space == <<" ">>

Line_comment_colon == <<"#"," ","k",":"," ","v">>

PoolLines ==
    << Line_get_a, Line_post_b, Line_get_ftp, Line_delim,
       Line_comment, <<>>, Line_header, Line_word, Line_header_again,
       Line_space, Line_comment_colon >>

\* A text is held as the positions in PoolLines of its lines
ParseTexts == UNION { [1..n -> 1..Len(PoolLines)] : n \in 0..MaxLines }

text_of(ix) == join([i \in 1..Len(ix) |-> PoolLines[ix[i]]], <<"\n">>)

InitParse ==
    /\ document_map = EmptyMap
    /\ lock = None
    /\ tasks = [t \in Tasks |-> IdleTask]
    /\ transcript = <<>>
    /\ issued = None
    /\ written = EmptyMap
    /\ parse_run \in { [text |-> x, requests |-> None] : x \in ParseTexts }

parse_text ==
    /\ is_none(parse_run.requests)
    /\ parse_run' = [parse_run EXCEPT
                       !.requests = Some(parse_http_file(text_of(parse_run.text)))]
    /\ UNCHANGED <<document_map, lock, tasks, transcript, issued, written>>

NextParse == parse_text

ParseSpec == InitParse /\ [][NextParse]_vars

\* ------------------------------------------------------------------------
\* validate_url on its own: parse_run holds the URL string validate_url is
\* called with, as the positions of its parts in the tables below and the
\* length it is padded to, and then the Result it returns
\* ------------------------------------------------------------------------
UrlSchemes ==
    << Str_http, Str_https, <<"H","T","T","P">>, <<"f","t","p">>,
       <<"f","i","l","e">>, <<"j","a","v","a","s","c","r","i","p","t">>,
       <<"d","a","t","a">>, <<"w","s">>, <<"w","s","s">>, <<"1","h">>, <<>> >>

UrlSeparators == << <<":","/","/">>, <<":">>, <<"/","/">> >>

UrlHosts ==
    << <<"a">>, <<>>, <<"a",":","8","0">>, <<"a",":","x">>, <<"u","@","a">> >>

UrlTails == << <<>>, <<"/","p","?","q","=","1">> >>

\* The lengths a URL is padded to: not at all, to the greatest length
\* validate_url takes, and to one more
UrlPaddings == { 0, MaxUrlLen, MaxUrlLen + 1 }

\* s followed by a path of 'x' that brings it to the length n
padded(s, n) ==
    IF Len(s) >= n THEN s
    ELSE [ i \in 1..n |-> IF i <= Len(s) THEN s[i]
                          ELSE IF i = Len(s) + 1 THEN "/" ELSE "x" ]

UrlInputs ==
    { <<a, b, c, d, n>> : a \in 1..Len(UrlSchemes), b \in 1..Len(UrlSeparators),
                          c \in 1..Len(UrlHosts), d \in 1..Len(UrlTails),
                          n \in UrlPaddings }

url_of(ix) ==
    padded(UrlSchemes[ix[1]] \o UrlSeparators[ix[2]] \o UrlHosts[ix[3]] \o UrlTails[ix[4]],
           ix[5])

InitUrl ==
    /\ document_map = EmptyMap
    /\ lock = None
    /\ tasks = [t \in Tasks |-> IdleTask]
    /\ transcript = <<>>
    /\ issued = None
    /\ written = EmptyMap
    /\ parse_run \in { [text |-> x, requests |-> None] : x \in UrlInputs }

validate_text ==
    /\ is_none(parse_run.requests)
    /\ parse_run' = [parse_run EXCEPT !.requests = Some(validate_url(url_of(parse_run.text)))]
    /\ UNCHANGED <<document_map, lock, tasks, transcript, issued, written>>

NextUrl == validate_text

UrlSpec == InitUrl /\ [][NextUrl]_vars

\* ------------------------------------------------------------------------
\* The output file of execute_command on its own: the path derived from the
\* uri of the document, for every path of at most MaxDepth segments drawn
\* from PathNames, and for a uri that cannot be a base
\* ------------------------------------------------------------------------
MaxDepth == 4

Str_test == <<"t","e","s","t">>

Str_src == <<"s","r","c">>

PathNames ==
    << Str_test, Str_src, <<"w">>, <<"a",".","h","t","t","p">>, <<"t","e","s","t","s">> >>

\* A uri is held as the positions in PathNames of the segments of its path
\* and whether it has path segments at all (a uri like mailto:a has none)
PathInputs ==
    { [ segments |-> x, base |-> b ] :
        x \in UNION { [1..n -> 1..Len(PathNames)] : n \in 0..MaxDepth },
        b \in BOOLEAN }

\* Url::path
path_of(input) ==
    <<"/">> \o join([i \in 1..Len(input.segments) |-> PathNames[input.segments[i]]], <<"/">>)

\* str::rfind for a pattern: Some(zero-based index of the last match)
rfind(s, pat) ==
    IF { i \in 1..(Len(s) - Len(pat) + 1) : SubSeq(s, i, i + Len(pat) - 1) = pat } = {}
    THEN None
    ELSE Some(Max({ i \in 1..(Len(s) - Len(pat) + 1) :
                      SubSeq(s, i, i + Len(pat) - 1) = pat }) - 1)

\* std::env::temp_dir
temp_dir == <<"/","t","m","p">>

\* Path::parent of an absolute path without trailing slash: None for the
\* root, the root for a path of one component
Path_parent(path) ==
    IF positions_not_in(path, {"/"}) = {} THEN None
    ELSE IF Max(positions_in(path, {"/"})) = 1 THEN Some(<<"/">>)
    ELSE Some(SubSeq(path, 1, Max(positions_in(path, {"/"})) - 1))

\* PathBuf::join with a relative path
Path_join(dir, name) ==
    IF dir = <<>> THEN name
    ELSE IF dir[Len(dir)] = "/" THEN dir \o name
    ELSE dir \o <<"/">> \o name

\* execute_command, Ok arm: the workspace root from the uri
workspace_root(has_segments, path) ==
    IF ~ has_segments THEN temp_dir
    ELSE IF is_some(rfind(path, <<"/">> \o Str_test \o <<"/">>))
    THEN SubSeq(path, 1, unwrap(rfind(path, <<"/">> \o Str_test \o <<"/">>)))
    ELSE IF is_some(rfind(path, <<"/">> \o Str_src \o <<"/">>))
    THEN SubSeq(path, 1, unwrap(rfind(path, <<"/">> \o Str_src \o <<"/">>)))
    ELSE unwrap_or(Path_parent(path), temp_dir)

Str_output_name ==
    <<"h","t","t","p","-","r","e","s","p","o","n","s","e","s",".","h","t","t","p">>

\* execute_command, Ok arm: workspace_root.join("http-responses.http")
output_file(input) == Path_join(workspace_root(input.base, path_of(input)), Str_output_name)

InitPath ==
    /\ document_map = EmptyMap
    /\ lock = None
    /\ tasks = [t \in Tasks |-> IdleTask]
    /\ transcript = <<>>
    /\ issued = None
    /\ written = EmptyMap
    /\ parse_run \in { [text |-> x, requests |-> None] : x \in PathInputs }

derive_output_file ==
    /\ is_none(parse_run.requests)
    /\ parse_run' = [parse_run EXCEPT !.requests = Some(output_file(parse_run.text))]
    /\ UNCHANGED <<document_map, lock, tasks, transcript, issued, written>>

NextPath == derive_output_file

PathSpec == InitPath /\ [][NextPath]_vars

\* ------------------------------------------------------------------------
\* Properties of the handlers (specification Spec: one handler at a time)
\* ------------------------------------------------------------------------

\* The descriptors of the text stored under a name
requests_of(text) == parse_http_file(Content(text))

\* The positions of the descriptors anchored exactly at a line
exact_at(requests, line) ==
    { i \in 1..Len(requests) : requests[i].line_number = line }

\* The positions of the descriptors anchored at or before a line
at_or_before(requests, line) ==
    { i \in 1..Len(requests) : requests[i].line_number <= line }

\* An execute_command task called with (uri, line) arguments a client can
\* send for a line, that has read the document and chosen its request
resolved(task) ==
    /\ task.handler = "execute_command"
    /\ is_some(task.content)
    /\ task.pc # "parse"
    /\ Len(task.arguments) >= 2
    /\ task.arguments[2].kind = "number"
    /\ task.arguments[2].num >= 0

\* C1: execute_command for (uri, line) executes only a descriptor whose
\* anchor is exactly the line; when the document has no descriptor anchored
\* there the invocation ends having sent no HTTP request, appended nothing
\* to the transcript and sent no message to the user, and returns nothing.
C1_ExactLineOrNothing ==
    \A t \in Tasks :
        resolved(tasks[t]) =>
            IF exact_at(requests_of(unwrap(tasks[t].content)),
                        tasks[t].arguments[2].num) = {}
            THEN /\ tasks[t].pc = "done"
                 /\ is_none(tasks[t].request)
                 /\ tasks[t].calls = 0
                 /\ tasks[t].appended = 0
                 /\ tasks[t].notes = <<>>
                 /\ is_none(tasks[t].result)
            ELSE /\ is_some(tasks[t].request)
                 /\ unwrap(tasks[t].request).line_number = tasks[t].arguments[2].num
                 /\ \E i \in exact_at(requests_of(unwrap(tasks[t].content)),
                                      tasks[t].arguments[2].num) :
                        requests_of(unwrap(tasks[t].content))[i] = unwrap(tasks[t].request)

\* An invocation for a line below which the document has a descriptor, but
\* none at the line, has ended as a no-op
C1_Witness ==
    \E t \in Tasks :
        /\ resolved(tasks[t])
        /\ tasks[t].pc = "done"
        /\ exact_at(requests_of(unwrap(tasks[t].content)), tasks[t].arguments[2].num) = {}
        /\ at_or_before(requests_of(unwrap(tasks[t].content)), tasks[t].arguments[2].num) # {}
        /\ tasks[t].calls = 0
        /\ Len(transcript) = 0

\* C2: an invocation made through an affordance the client was shown is
\* resolved by parsing the text the store holds when the command runs: the
\* request executed is the first descriptor of that text anchored exactly at
\* the affordance's line, and with no such descriptor (or no such document)
\* nothing is executed, whatever descriptor the affordance was generated for.
C2_ResolvesAgainstStoredText ==
    \A t \in Tasks :
        (/\ tasks[t].handler = "execute_command"
         /\ is_some(tasks[t].affordance)
         /\ tasks[t].pc \in {"executing_log", "http", "request_failed",
                             "written_show", "open_failed_show", "done"}) =>
            IF tasks[t].uri \in DOMAIN document_map
            THEN IF exact_at(requests_of(document_map[tasks[t].uri]), tasks[t].line) = {}
                 THEN is_none(tasks[t].request) /\ tasks[t].calls = 0
                 ELSE /\ tasks[t].request =
                            Some(requests_of(document_map[tasks[t].uri])
                                   [Min(exact_at(requests_of(document_map[tasks[t].uri]),
                                                 tasks[t].line))])
                      /\ tasks[t].pc # "executing_log" => tasks[t].calls = 1
            ELSE is_none(tasks[t].request) /\ tasks[t].calls = 0

\* An affordance generated for one method has executed a request of another
\* method, taken from the text stored since
C2_Witness ==
    \E t \in Tasks :
        /\ tasks[t].handler = "execute_command"
        /\ is_some(tasks[t].affordance)
        /\ is_some(tasks[t].request)
        /\ tasks[t].calls = 1
        /\ unwrap(tasks[t].request).method # unwrap(tasks[t].affordance).title

\* C3: code_action(uri, line) returns nothing when the uri is not in the
\* store or no descriptor is anchored at or before the line; otherwise it
\* returns one action whose arguments are (uri, a), a the greatest anchor at
\* or before the line, titled with that descriptor's method.
C3_CodeActionClosestPreceding ==
    \A t \in Tasks :
        (tasks[t].handler = "code_action" /\ tasks[t].pc = "done") =>
            IF tasks[t].uri \notin DOMAIN document_map
            THEN is_none(tasks[t].result)
            ELSE IF at_or_before(requests_of(document_map[tasks[t].uri]), tasks[t].line) = {}
            THEN is_none(tasks[t].result)
            ELSE \E i \in at_or_before(requests_of(document_map[tasks[t].uri]), tasks[t].line) :
                    /\ \A j \in at_or_before(requests_of(document_map[tasks[t].uri]), tasks[t].line) :
                           requests_of(document_map[tasks[t].uri])[j].line_number
                             <= requests_of(document_map[tasks[t].uri])[i].line_number
                    /\ tasks[t].result =
                         Some(<< [ title |-> requests_of(document_map[tasks[t].uri])[i].method,
                                   command |-> "http.sendRequest",
                                   arguments |->
                                     << JsonString(tasks[t].uri),
                                        JsonNumber(requests_of(document_map[tasks[t].uri])[i].line_number) >> ] >>)

\* A code action was returned for a line past two descriptors, and it is
\* anchored before the line it was asked for
C3_Witness ==
    \E t \in Tasks :
        /\ tasks[t].handler = "code_action" /\ tasks[t].pc = "done"
        /\ is_some(tasks[t].result)
        /\ tasks[t].uri \in DOMAIN document_map
        /\ Cardinality(at_or_before(requests_of(document_map[tasks[t].uri]), tasks[t].line)) >= 2
        /\ unwrap(tasks[t].result)[1].arguments[2].num < tasks[t].line

\* C4: code_lens(uri) for a stored document returns one lens per descriptor,
\* in order, placed at the descriptor's anchor and carrying the command
\* http.sendRequest with arguments (uri, anchor); for a uri that is not in
\* the store it returns nothing.
C4_OneLensPerDescriptor ==
    \A t \in Tasks :
        (tasks[t].handler = "code_lens" /\ tasks[t].pc = "done") =>
            IF tasks[t].uri \notin DOMAIN document_map
            THEN is_none(tasks[t].result)
            ELSE /\ is_some(tasks[t].result)
                 /\ Len(unwrap(tasks[t].result)) = Len(requests_of(document_map[tasks[t].uri]))
                 /\ \A i \in 1..Len(unwrap(tasks[t].result)) :
                        /\ unwrap(tasks[t].result)[i].line =
                             requests_of(document_map[tasks[t].uri])[i].line_number
                        /\ unwrap(tasks[t].result)[i].command.command = "http.sendRequest"
                        /\ unwrap(tasks[t].result)[i].command.arguments =
                             << JsonString(tasks[t].uri),
                                JsonNumber(requests_of(document_map[tasks[t].uri])[i].line_number) >>

\* Lenses were returned for a document of two descriptors
C4_Witness ==
    \E t \in Tasks :
        /\ tasks[t].handler = "code_lens" /\ tasks[t].pc = "done"
        /\ is_some(tasks[t].result)
        /\ Len(unwrap(tasks[t].result)) = 2
        /\ unwrap(tasks[t].result)[2].line = 2

\* ------------------------------------------------------------------------
\* Properties of the parser (specification ParseSpec)
\* ------------------------------------------------------------------------

\* The line at a zero-based index is a block delimiter
is_delimiter(lines, idx) == starts_with(trim(lines[idx + 1]), <<"#", "#", "#">>)

\* The line at a zero-based index has a method token and a URL token: it is
\* no comment and its first two tokens are a method and something else
has_method_and_url(lines, idx) ==
    /\ ~ starts_with(trim(lines[idx + 1]), <<"#">>)
    /\ ~ starts_with(trim(lines[idx + 1]), <<"/", "/">>)
    /\ Len(split_whitespace(trim(lines[idx + 1]))) >= 2
    /\ to_uppercase(split_whitespace(trim(lines[idx + 1]))[1]) \in valid_methods

\* Two zero-based indices, the first before the second, lie in one block
same_block(lines, first, second) ==
    \A k \in first..second : ~ is_delimiter(lines, k)

\* C5: no descriptor is anchored at a line that follows, in the same block,
\* a line with a method token and a URL token: when the first such line of
\* a block fails URL validation the block yields no descriptor.
C5_InvalidUrlDiscardsBlock ==
    is_some(parse_run.requests) =>
        \A k \in 1..Len(unwrap(parse_run.requests)) :
            \A idx \in 0..(unwrap(parse_run.requests)[k].line_number - 1) :
                ~ (/\ same_block(lines_of(text_of(parse_run.text)), idx,
                                 unwrap(parse_run.requests)[k].line_number)
                   /\ has_method_and_url(lines_of(text_of(parse_run.text)), idx))

\* ------------------------------------------------------------------------
\* Properties of the document store
\* ------------------------------------------------------------------------

\* The task's next step is the one that writes the store, in this handler
writes_as(task, handler) == task.handler = handler /\ task.pc = "locked"

\* C6: a document identifier enters the store only by did_open and leaves
\* it only by did_close, so that it is present exactly when it has been
\* opened and not closed since; did_change only replaces the text of an
\* entry that exists.
C6_PresentIffOpenedNotClosed ==
    [][ /\ DOMAIN document_map' \ DOMAIN document_map # {} =>
              \E t \in Tasks : writes_as(tasks[t], "did_open") /\ tasks'[t].pc # "locked"
        /\ DOMAIN document_map \ DOMAIN document_map' # {} =>
              \E t \in Tasks : writes_as(tasks[t], "did_close") /\ tasks'[t].pc # "locked"
      ]_vars

\* The task's next step is the insertion of did_change
changing(task) == writes_as(task, "did_change")

\* C8: the step of did_change that writes the store sets the document's
\* entry to the text of the first content change, whatever the entry was and
\* whatever further changes the notification has, and leaves every other
\* entry alone; no other step of did_change writes the store, and a
\* notification without content change never reaches the writing step.
C8_ChangeStoresFirstChange ==
    [][ \A t \in Tasks :
          (tasks[t].handler = "did_change" \/ tasks'[t].handler = "did_change") =>
             IF changing(tasks[t]) /\ tasks'[t].pc # "locked"
             THEN /\ tasks[t].content_changes # <<>>
                  /\ DOMAIN document_map' = DOMAIN document_map \cup {tasks[t].uri}
                  /\ document_map'[tasks[t].uri] = tasks[t].content_changes[1]
                  /\ \A u \in DOMAIN document_map \ {tasks[t].uri} :
                         document_map'[u] = document_map[u]
             ELSE document_map' = document_map
      ]_vars

\* A notification of two different content changes has been handled and the
\* store holds the first
C8_Witness ==
    \E t \in Tasks :
        /\ tasks[t].handler = "did_change" /\ tasks[t].pc = "done"
        /\ Len(tasks[t].content_changes) = 2
        /\ tasks[t].content_changes[1] # tasks[t].content_changes[2]
        /\ tasks[t].uri \in DOMAIN document_map
        /\ document_map[tasks[t].uri] = tasks[t].content_changes[1]

\* The executor was called for the task and has failed
executor_failed(task) ==
    /\ task.handler = "execute_command"
    /\ task.calls >= 1
    /\ is_none(task.response)
    /\ task.pc \in {"request_failed", "done"}

\* C9: when the executor fails for an invocation, no step of the invocation
\* from the failure on changes the transcript, the invocation has appended
\* nothing, and it ends having shown the user an error message "Request
\* failed".
C9_FailureShownNothingAppended ==
    [][ \A t \in Tasks :
          executor_failed(tasks'[t]) =>
             /\ transcript' = transcript
             /\ tasks'[t].appended = 0
             /\ tasks'[t].pc = "done" =>
                  /\ tasks'[t].notes # <<>>
                  /\ tasks'[t].notes[Len(tasks'[t].notes)] =
                       show_message("ERROR", "Request failed")
      ]_vars

\* An invocation whose HTTP call failed has ended, with the failure shown,
\* and the transcript holds what an earlier invocation appended
C9_Witness ==
    \E t \in Tasks :
        /\ executor_failed(tasks[t])
        /\ tasks[t].pc = "done"
        /\ unwrap(tasks[t].request).method \in executor_methods
        /\ show_message("ERROR", "Request failed") \in
             { tasks[t].notes[i] : i \in 1..Len(tasks[t].notes) }
        /\ Len(transcript) = 1

\* The step is the one in which the task's record is written
appends(task, task_after) == task.pc = "http" /\ task_after.pc = "written_show"

\* C10: the transcript changes only in the step in which an invocation whose
\* executor succeeded writes its record, and then by exactly that one record
\* at the end: the records before it stay as they were.  The invocation then
\* shows the user the success message and returns the response's summary.
C10_SuccessAppendsOneRecord ==
    [][ /\ \A t \in Tasks :
              /\ appends(tasks[t], tasks'[t]) =>
                    /\ is_some(tasks'[t].response)
                    /\ transcript' =
                         Append(transcript,
                                format_response_output(unwrap(tasks[t].request),
                                                       unwrap(tasks'[t].response)))
                    /\ tasks'[t].appended = 1
              /\ (tasks[t].pc = "written_show" /\ tasks'[t].pc # "written_show") =>
                    /\ tasks'[t].pc = "done"
                    /\ tasks'[t].appended = 1
                    /\ tasks'[t].notes[Len(tasks'[t].notes)] =
                         show_message("INFO", "Response appended")
                    /\ tasks'[t].result = Some(summary(unwrap(tasks[t].response)))
        /\ (\A t \in Tasks : ~ appends(tasks[t], tasks'[t])) => transcript' = transcript
        /\ Len(transcript') >= Len(transcript)
        /\ SubSeq(transcript', 1, Len(transcript)) = transcript
      ]_vars

\* An invocation has appended its record after the record of an earlier
\* invocation and has shown its success
C10_Witness ==
    \E t \in Tasks :
        /\ tasks[t].handler = "execute_command" /\ tasks[t].pc = "done"
        /\ tasks[t].appended = 1
        /\ Len(transcript) = 2
        /\ transcript[2] = format_response_output(unwrap(tasks[t].request),
                                                  unwrap(tasks[t].response))
        /\ transcript[1] # transcript[2]
        /\ show_message("INFO", "Response appended") \in
             { tasks[t].notes[i] : i \in 1..Len(tasks[t].notes) }

\* ------------------------------------------------------------------------
\* Properties of concurrent handlers (specification SpecConc)
\* ------------------------------------------------------------------------

\* A code_lens, code_action or execute_command task that has looked its
\* document up in the store
has_read(task) ==
    /\ task.handler \in {"code_action", "code_lens", "execute_command"}
    /\ task.admissible # {}
    /\ task.pc \notin {"lens_log", "lock", "locked"}

\* C7: under any interleaving of handlers, what a read finds for its
\* document (a text, or no entry) is what the last write completed before
\* the read was called left there, or what a write completed since has left
\* there: never something older, and always one written text as a whole.
\* The store holds for every document what the last completed write left,
\* and the steps that use the store are taken under the lock, one task at a
\* time.
C7_ReadsSeeCompletedWrites ==
    /\ document_map = written
    /\ \A t \in Tasks :
          /\ has_read(tasks[t]) => tasks[t].content \in tasks[t].admissible
          /\ has_read(tasks[t]) /\ is_some(tasks[t].content) =>
                unwrap(tasks[t].content) \in Texts
          /\ tasks[t].pc \in {"locked", "not_found_log"} => lock = Some(t)

\* A read has found the text of a write that completed after the read was
\* called, while the other task is in a handler of the same document
C7_Witness ==
    \E t \in Tasks :
        /\ has_read(tasks[t])
        /\ is_some(tasks[t].content)
        /\ Cardinality(tasks[t].admissible) >= 2
        /\ \E x \in Tasks \ {t} : tasks[x].pc # "idle" /\ tasks[x].uri = tasks[t].uri

\* ------------------------------------------------------------------------
\* Properties of the dispatcher's failure paths (specification Spec)
\* ------------------------------------------------------------------------

\* The messages a task has sent to the client
notes_of(task) == { task.notes[i] : i \in 1..Len(task.notes) }

\* An execute_command task, called with a uri, that has ended for a
\* document the store does not hold
ended_not_found(task) ==
    /\ task.handler = "execute_command"
    /\ task.pc = "done"
    /\ task.admissible # {}
    /\ task.uri \notin DOMAIN document_map

\* C11 as stated: an invocation for a document that is not in the store
\* shows the user an error, calls no executor and appends nothing.
C11_NotFoundShownToUser ==
    \A t \in Tasks :
        ended_not_found(tasks[t]) =>
            /\ \E n \in notes_of(tasks[t]) : n.via = "show_message" /\ n.type = "ERROR"
            /\ tasks[t].calls = 0
            /\ tasks[t].appended = 0

\* C11 as the code has it: an invocation for a document that is not in the
\* store sends the client the log message "Document not found" of type
\* ERROR and nothing else (no message is shown to the user), calls no
\* executor, appends nothing and returns nothing.
C11_NotFoundLoggedOnly ==
    \A t \in Tasks :
        ended_not_found(tasks[t]) =>
            /\ tasks[t].notes = <<log_message("ERROR", "Document not found")>>
            /\ is_none(tasks[t].request)
            /\ tasks[t].calls = 0
            /\ tasks[t].appended = 0
            /\ is_none(tasks[t].result)

\* An invocation for a document that was closed has ended; the transcript
\* holds the record of an earlier invocation only
C11_Witness ==
    \E t \in Tasks :
        /\ ended_not_found(tasks[t])
        /\ tasks[t].notes # <<>>
        /\ Len(transcript) = 1
        /\ document_map = EmptyMap

\* An execute_command task whose HTTP call succeeded and that has ended
\* without its record in the transcript: the file could not be opened or
\* could not be written
ended_unwritten(task) ==
    /\ task.handler = "execute_command"
    /\ task.pc = "done"
    /\ is_some(task.response)
    /\ task.appended = 0

\* C12: an invocation whose HTTP call succeeded and whose record could not
\* be put in the transcript file (the file cannot be opened, or cannot be
\* written) has shown the user an error message and returns the summary of
\* the response.
C12_SinkFailureShown ==
    \A t \in Tasks :
        ended_unwritten(tasks[t]) =>
            /\ \E n \in notes_of(tasks[t]) : n.via = "show_message" /\ n.type = "ERROR"
            /\ tasks[t].result = Some(summary(unwrap(tasks[t].response)))

\* The positions from which a handler has a next step (the positions the
\* steps of handler_step start from) or returns (done)
serving_positions ==
    { "lens_log", "lock", "locked", "open_log", "parse", "lens_build",
      "not_found_log", "invalid_uri_log", "executing_log", "http",
      "request_failed", "written_show", "open_failed_show", "done" }

\* C13: whatever notifications and requests have been handled, with whatever
\* text and command arguments, the session goes on: a handler that has been
\* called is at a position from which it steps or returns (one waiting for
\* the mutex finds it free, or held by a handler that goes on), and a free
\* task takes any further message.
C13_SessionKeepsServing ==
    \A t \in SeqTasks :
        IF tasks[t].pc = "idle"
        THEN /\ \A uri \in Uris : ENABLED did_close(t, uri) /\ ENABLED code_lens(t, uri)
             /\ \A uri \in Uris, text \in Texts : ENABLED did_open(t, uri, text)
             /\ \A uri \in Uris, cc \in ChangeVectors : ENABLED did_change(t, uri, cc)
             /\ \A uri \in Uris, line \in Lines : ENABLED code_action(t, uri, line)
             /\ Len(transcript) < MaxTranscript =>
                   \A c \in CommandCalls : ENABLED execute_command(t, c[1], c[2], None)
        ELSE /\ tasks[t].pc \in serving_positions
             /\ tasks[t].pc = "lock" =>
                   \/ is_none(lock)
                   \/ tasks[unwrap(lock)].pc \in {"locked", "not_found_log"}

\* The server has handled a command without arguments, a command whose
\* arguments are no uri and no number, and serves on: after them a document
\* was opened and a request of it executed
C13_Witness ==
    \E t \in SeqTasks :
        /\ tasks[t].handler = "execute_command"
        /\ tasks[t].pc = "done"
        /\ Len(tasks[t].arguments) < 2
        /\ tasks[t].command = "http.sendRequest"
        /\ Len(transcript) >= 1

\* ------------------------------------------------------------------------
\* Properties of the parser's blocks (specification ParseSpec)
\* ------------------------------------------------------------------------

\* The lines of the text that was parsed
parsed_lines == lines_of(text_of(parse_run.text))

\* The number of delimiter lines
delimiter_count(lines) ==
    Cardinality({ idx \in 0..(Len(lines) - 1) : is_delimiter(lines, idx) })

\* The descriptors of a sequence of blocks, block after block
RECURSIVE requests_in(_, _)
requests_in(lines, blocks) ==
    IF blocks = <<>> THEN <<>>
    ELSE parse_block_lines(lines, Head(blocks)[1], Head(blocks)[2])
           \o requests_in(lines, Tail(blocks))

\* C14: for a text with N delimiter lines parse_http_file hands exactly N+1
\* blocks to parse_block_lines, returns what these blocks yield, in order,
\* and so returns at most N+1 descriptors.
C14_BlocksAndDescriptors ==
    is_some(parse_run.requests) =>
        /\ Len(attempted_blocks(parsed_lines)) = delimiter_count(parsed_lines) + 1
        /\ unwrap(parse_run.requests) = requests_in(parsed_lines, attempted_blocks(parsed_lines))
        /\ Len(unwrap(parse_run.requests)) <= delimiter_count(parsed_lines) + 1

\* A text with one delimiter line was parsed into two descriptors
C14_Witness ==
    /\ is_some(parse_run.requests)
    /\ delimiter_count(parsed_lines) = 1
    /\ Len(unwrap(parse_run.requests)) = 2

\* The line at a zero-based index carries a valid method token followed by
\* a valid URL token
valid_request_line(lines, idx) ==
    /\ Len(split_whitespace(trim(lines[idx + 1]))) >= 2
    /\ to_uppercase(split_whitespace(trim(lines[idx + 1]))[1]) \in valid_methods
    /\ validate_url(split_whitespace(trim(lines[idx + 1]))[2]).ok

valid_request_lines(lines) ==
    { idx \in 0..(Len(lines) - 1) : valid_request_line(lines, idx) }

\* C15: a text without delimiter line yields at most one descriptor; it
\* yields one exactly when some line carries a valid method token followed
\* by a valid URL token, and the descriptor is anchored at the first such
\* line.
C15_SingleBlockFirstValidLine ==
    (is_some(parse_run.requests) /\ delimiter_count(parsed_lines) = 0) =>
        IF valid_request_lines(parsed_lines) = {}
        THEN unwrap(parse_run.requests) = <<>>
        ELSE /\ Len(unwrap(parse_run.requests)) = 1
             /\ unwrap(parse_run.requests)[1].line_number =
                  Min(valid_request_lines(parsed_lines))

\* A text without delimiter was parsed into a descriptor anchored after a
\* line that has a method and a URL the validation refuses
C15_Witness ==
    /\ is_some(parse_run.requests)
    /\ delimiter_count(parsed_lines) = 0
    /\ Len(unwrap(parse_run.requests)) = 1
    /\ \E idx \in 0..(unwrap(parse_run.requests)[1].line_number - 1) :
           has_method_and_url(parsed_lines, idx)

\* The whitespace-delimited tokens of the line at a zero-based index
tokens_at(lines, idx) == split_whitespace(trim(lines[idx + 1]))

\* C16: the anchor of every descriptor is a zero-based index of a line of
\* the text, and that line, split at whitespace, has the descriptor's method
\* (after upper-casing) as its first token and the descriptor's URL as its
\* second.
C16_AnchorPointsAtRequestLine ==
    is_some(parse_run.requests) =>
        \A k \in 1..Len(unwrap(parse_run.requests)) :
            /\ unwrap(parse_run.requests)[k].line_number \in 0..(Len(parsed_lines) - 1)
            /\ Len(tokens_at(parsed_lines, unwrap(parse_run.requests)[k].line_number)) >= 2
            /\ to_uppercase(tokens_at(parsed_lines, unwrap(parse_run.requests)[k].line_number)[1])
                 = unwrap(parse_run.requests)[k].method
            /\ tokens_at(parsed_lines, unwrap(parse_run.requests)[k].line_number)[2]
                 = unwrap(parse_run.requests)[k].url

\* A descriptor anchored past the first line was returned, for a request
\* line that writes its method in lower case
C16_Witness ==
    /\ is_some(parse_run.requests)
    /\ \E k \in 1..Len(unwrap(parse_run.requests)) :
           /\ unwrap(parse_run.requests)[k].line_number >= 1
           /\ tokens_at(parsed_lines, unwrap(parse_run.requests)[k].line_number)[1]
                # unwrap(parse_run.requests)[k].method

\* C17: the descriptors are in document order: each is anchored after the
\* one before it, so no two descriptors share an anchor.
C17_AnchorsIncrease ==
    is_some(parse_run.requests) =>
        \A k \in 1..(Len(unwrap(parse_run.requests)) - 1) :
            unwrap(parse_run.requests)[k].line_number
              < unwrap(parse_run.requests)[k + 1].line_number

\* Two descriptors were returned
C17_Witness ==
    /\ is_some(parse_run.requests)
    /\ Len(unwrap(parse_run.requests)) >= 2

\* The end of the block a zero-based index lies in: the index of the next
\* delimiter line, or the number of lines
block_end(lines, idx) ==
    Min({ k \in idx..(Len(lines) - 1) : is_delimiter(lines, k) } \cup { Len(lines) })

is_comment(lines, idx) ==
    \/ starts_with(trim(lines[idx + 1]), <<"#">>)
    \/ starts_with(trim(lines[idx + 1]), <<"/", "/">>)

\* The header lines of the descriptor anchored at a line: the lines of its
\* block after the anchor and before the first blank line that are no
\* comment and have a colon
header_lines(lines, anchor) ==
    { idx \in (anchor + 1)..(block_end(lines, anchor) - 1) :
        /\ \A j \in (anchor + 1)..idx : trim(lines[j + 1]) # <<>>
        /\ ~ is_comment(lines, idx)
        /\ is_some(find(trim(lines[idx + 1]), ":")) }

\* Name and value of a header line: what is before and after its first colon
header_name(lines, idx) ==
    trim(SubSeq(trim(lines[idx + 1]), 1, unwrap(find(trim(lines[idx + 1]), ":"))))

header_value(lines, idx) ==
    trim(SubSeq(trim(lines[idx + 1]), unwrap(find(trim(lines[idx + 1]), ":")) + 2,
                Len(trim(lines[idx + 1]))))

\* C18: the header mapping of a descriptor has one entry for each name on
\* the header lines of its block, and the value of a name is the value of
\* the last header line with that name.
C18_LastHeaderWins ==
    is_some(parse_run.requests) =>
        \A k \in 1..Len(unwrap(parse_run.requests)) :
            /\ DOMAIN unwrap(parse_run.requests)[k].headers =
                 { header_name(parsed_lines, idx) :
                     idx \in header_lines(parsed_lines, unwrap(parse_run.requests)[k].line_number) }
            /\ \A idx \in header_lines(parsed_lines, unwrap(parse_run.requests)[k].line_number) :
                   unwrap(parse_run.requests)[k].headers[header_name(parsed_lines, idx)] =
                     header_value(parsed_lines,
                        Max({ j \in header_lines(parsed_lines, unwrap(parse_run.requests)[k].line_number) :
                                header_name(parsed_lines, j) = header_name(parsed_lines, idx) }))

\* A descriptor was returned for a block with two header lines of one name
\* and different values
C18_Witness ==
    /\ is_some(parse_run.requests)
    /\ \E k \in 1..Len(unwrap(parse_run.requests)) :
         \E i, j \in header_lines(parsed_lines, unwrap(parse_run.requests)[k].line_number) :
           /\ i < j
           /\ header_name(parsed_lines, i) = header_name(parsed_lines, j)
           /\ header_value(parsed_lines, i) # header_value(parsed_lines, j)
           /\ unwrap(parse_run.requests)[k].headers[header_name(parsed_lines, j)]
                = header_value(parsed_lines, j)

\* The blank lines of the block after the line a descriptor is anchored at
blank_lines_after(lines, anchor) ==
    { idx \in (anchor + 1)..(block_end(lines, anchor) - 1) : trim(lines[idx + 1]) = <<>> }

\* The body section of the descriptor anchored at a line: the indices of
\* the lines of its block after the first blank line that follows the anchor
body_section(lines, anchor) ==
    IF blank_lines_after(lines, anchor) = {} THEN {}
    ELSE (Min(blank_lines_after(lines, anchor)) + 1)..(block_end(lines, anchor) - 1)

\* The lines of the body section, in order
body_section_lines(lines, anchor) ==
    [ i \in 1..Cardinality(body_section(lines, anchor)) |->
        lines[Min(blank_lines_after(lines, anchor)) + 1 + i] ]

\* C19: a descriptor whose body section is empty or holds only whitespace
\* has no body (never the empty string as body).
C19_BlankBodyIsAbsent ==
    is_some(parse_run.requests) =>
        \A k \in 1..Len(unwrap(parse_run.requests)) :
            (\A idx \in body_section(parsed_lines, unwrap(parse_run.requests)[k].line_number) :
                 trim(parsed_lines[idx + 1]) = <<>>)
            => is_none(unwrap(parse_run.requests)[k].body)

\* C20: the body of a descriptor is the lines of its body section, all of
\* them, as they are and in order, joined by newlines and trimmed at the two
\* ends; without a line in the body section there is no body.
C20_BodyIsSectionVerbatim ==
    is_some(parse_run.requests) =>
        \A k \in 1..Len(unwrap(parse_run.requests)) :
            IF body_section(parsed_lines, unwrap(parse_run.requests)[k].line_number) = {}
            THEN is_none(unwrap(parse_run.requests)[k].body)
            ELSE unwrap(parse_run.requests)[k].body =
                   Some(trim(join(body_section_lines(parsed_lines,
                                     unwrap(parse_run.requests)[k].line_number),
                                  <<"\n">>)))

\* ------------------------------------------------------------------------
\* Properties of validate_url (specification UrlSpec)
\* ------------------------------------------------------------------------

\* The string validate_url was called with
validated_url == url_of(parse_run.text)

\* The string parses as an absolute URL of scheme http or https with a host
http_url_with_host(url_str) ==
    /\ Url_parse(url_str).ok
    /\ Url_parse(url_str).scheme \in {Str_http, Str_https}
    /\ is_some(Url_parse(url_str).host)

\* C21: validate_url accepts a string, and returns it as it is, exactly
\* when it has at most 2048 characters and parses as an absolute URL of
\* scheme http or https with a host; otherwise it returns a reason, and for
\* a string of more than 2048 characters the reason is its length, whatever
\* its scheme.
C21_ValidateUrl ==
    is_some(parse_run.requests) =>
        /\ unwrap(parse_run.requests).ok <=>
             (Len(validated_url) <= MaxUrlLen /\ http_url_with_host(validated_url))
        /\ unwrap(parse_run.requests).ok => unwrap(parse_run.requests).val = validated_url
        /\ ~ unwrap(parse_run.requests).ok => unwrap(parse_run.requests).err # ""
        /\ Len(validated_url) > MaxUrlLen => unwrap(parse_run.requests).err = "URL too long"

\* A URL of exactly 2048 characters, with a port, was accepted
C21_Witness ==
    /\ is_some(parse_run.requests)
    /\ unwrap(parse_run.requests).ok
    /\ Len(validated_url) = MaxUrlLen
    /\ parse_run.text[3] = 3

\* ------------------------------------------------------------------------
\* Properties of the parser as the handlers use it (specification SpecConc)
\* ------------------------------------------------------------------------

\* A task that has parsed the text it read and holds what it took from the
\* descriptors: the lenses, or the request selected for its line
has_parsed(task) ==
    /\ is_some(task.content)
    /\ \/ task.handler = "code_lens" /\ task.pc = "done"
       \/ task.handler = "code_action" /\ task.pc = "done"
       \/ task.handler = "execute_command" /\ task.pc # "parse"

\* Anchor and method of the lenses of a code_lens task
lens_descriptors(task) ==
    [ i \in 1..Len(unwrap(task.result)) |->
        <<unwrap(task.result)[i].line, unwrap(task.result)[i].command.title>> ]

anchors == { unwrap(parse_run.requests)[k].line_number : k \in 1..Len(unwrap(parse_run.requests)) }

\* The line at a zero-based index is the first of its block that carries a
\* method token in any case, a second token, and a URL the validation takes
first_valid_request_line(lines, idx) ==
    /\ valid_request_line(lines, idx)
    /\ \A j \in 0..(idx - 1) :
           (valid_request_line(lines, j) /\ ~ is_delimiter(lines, j)) =>
               ~ same_block(lines, j, idx)

\* C23: a line is recognised as the request line of its block when its
\* first token, upper-cased, is one of the seven methods and a second token
\* follows (and validates as URL): the first such line of a block anchors a
\* descriptor, nothing else does, and the descriptor's method is the
\* upper-case form of the token, one of the seven methods.
C23_MethodRecognisedUpperCased ==
    is_some(parse_run.requests) =>
        /\ \A idx \in 0..(Len(parsed_lines) - 1) :
               idx \in anchors <=>
                   (~ is_delimiter(parsed_lines, idx)
                      /\ first_valid_request_line(parsed_lines, idx))
        /\ \A k \in 1..Len(unwrap(parse_run.requests)) :
               /\ unwrap(parse_run.requests)[k].method \in valid_methods
               /\ unwrap(parse_run.requests)[k].method =
                    to_uppercase(unwrap(parse_run.requests)[k].method)

\* Two descriptors were returned, one for a method written in upper case
\* and one for a method written in lower case
C23_Witness ==
    /\ is_some(parse_run.requests)
    /\ \E k1, k2 \in 1..Len(unwrap(parse_run.requests)) :
           /\ tokens_at(parsed_lines, unwrap(parse_run.requests)[k1].line_number)[1]
                = unwrap(parse_run.requests)[k1].method
           /\ tokens_at(parsed_lines, unwrap(parse_run.requests)[k2].line_number)[1]
                = <<"p", "o", "s", "t">>
           /\ unwrap(parse_run.requests)[k2].method = Str_POST

\* ------------------------------------------------------------------------
\* Properties of the lock (specification SpecConc)
\* ------------------------------------------------------------------------

\* The positions at which a handler is about to run the parser, or is in
\* the call of the executor and what follows it
parser_positions == { "parse", "lens_build" }

executor_positions ==
    { "executing_log", "http", "request_failed", "written_show", "open_failed_show" }

\* C24: a code_lens, code_action or execute_command handler that is about
\* to parse, or that is calling the executor, holds a copy of the text and
\* does not hold the lock of the document store.
C24_ParserExecutorOutsideLock ==
    \A t \in Tasks :
        (tasks[t].handler \in {"code_lens", "code_action", "execute_command"}
           /\ tasks[t].pc \in parser_positions \cup executor_positions) =>
            /\ lock # Some(t)
            /\ is_some(tasks[t].content)

\* A handler is in the HTTP call while another handler holds the lock
C24_Witness ==
    \E t1, t2 \in Tasks :
        /\ t1 # t2
        /\ tasks[t1].handler = "execute_command" /\ tasks[t1].pc = "http"
        /\ lock = Some(t2)

\* A code_lens or code_action query that has its result, called when the
\* store held one value for its document and read before any write to that
\* document completed
settled_query(task) ==
    /\ task.handler \in {"code_lens", "code_action"}
    /\ task.pc = "done"
    /\ Cardinality(task.admissible) = 1

\* C25: the store is what the completed did_open, did_change and did_close
\* writes made it (code_lens, code_action and execute_command never change
\* it), and two identical code_lens or code_action queries that find the
\* same stored value for their document return identical results.
C25_ReadersLeaveStoreAndAgree ==
    /\ document_map = written
    /\ \A t1, t2 \in Tasks :
           (settled_query(tasks[t1]) /\ settled_query(tasks[t2])
              /\ tasks[t1].handler = tasks[t2].handler
              /\ tasks[t1].uri = tasks[t2].uri
              /\ tasks[t1].line = tasks[t2].line
              /\ tasks[t1].admissible = tasks[t2].admissible) =>
               tasks[t1].result = tasks[t2].result

\* Two code_action queries for the same document and line, with no write
\* between them, both hold the action they return, and the store still
\* holds the document
C25_Witness ==
    \E t1, t2 \in Tasks :
        /\ t1 # t2
        /\ settled_query(tasks[t1]) /\ settled_query(tasks[t2])
        /\ tasks[t1].handler = "code_action" /\ tasks[t2].handler = "code_action"
        /\ tasks[t1].uri = tasks[t2].uri
        /\ tasks[t1].admissible = tasks[t2].admissible
        /\ is_some(tasks[t1].result) /\ is_some(tasks[t2].result)
        /\ tasks[t1].uri \in DOMAIN document_map

\* C26: on every path of every handler the lock is held only for the step
\* that copies or mutates the text: a handler that holds the lock is at
\* that step, and is not waiting on a client notification, the parser or
\* the HTTP call.
C26_LockHeldOnlyToCopyOrMutate ==
    \A t \in Tasks : lock = Some(t) => tasks[t].pc = "locked"

\* The zero-based index of the first line of the block of the line at idx:
\* the line after the last delimiter line before idx
block_begin(lines, idx) ==
    Max({ k + 1 : k \in { j \in 0..(idx - 1) : is_delimiter(lines, j) } } \cup { 0 })

\* The lines of the block of the line at idx, without its delimiters
block_lines(lines, idx) ==
    SubSeq(lines, block_begin(lines, idx) + 1, block_end(lines, idx))

\* C27: every delimiter line ends a block and the next block starts after
\* it, the last block included: no descriptor is anchored at a delimiter
\* line, no two descriptors are anchored in one block, every block with a
\* valid request line yields a descriptor, and each descriptor is what the
\* lines of its own block, taken alone, yield (the anchor counted from the
\* beginning of the block): nothing of it comes from a delimiter line or
\* from the lines before or after its block.
C27_DescriptorFromOwnBlock ==
    is_some(parse_run.requests) =>
        /\ \A k \in 1..Len(unwrap(parse_run.requests)) :
               /\ ~ is_delimiter(parsed_lines, unwrap(parse_run.requests)[k].line_number)
               /\ parse_block_lines(
                    block_lines(parsed_lines, unwrap(parse_run.requests)[k].line_number), 0,
                    Len(block_lines(parsed_lines, unwrap(parse_run.requests)[k].line_number)))
                  = << [ unwrap(parse_run.requests)[k] EXCEPT !.line_number =
                           @ - block_begin(parsed_lines, unwrap(parse_run.requests)[k].line_number) ] >>
        /\ \A k1, k2 \in 1..Len(unwrap(parse_run.requests)) :
               k1 < k2 =>
                   ~ same_block(parsed_lines, unwrap(parse_run.requests)[k1].line_number,
                                unwrap(parse_run.requests)[k2].line_number)
        /\ \A idx \in valid_request_lines(parsed_lines) :
               \E a \in anchors :
                   block_begin(parsed_lines, a) = block_begin(parsed_lines, idx)

\* A descriptor without header and body was returned for a block that is
\* followed by a delimiter line and a line with a colon, and the block
\* after the last delimiter yielded a descriptor too
C27_Witness ==
    /\ is_some(parse_run.requests)
    /\ \E k \in 1..Len(unwrap(parse_run.requests)) :
           /\ unwrap(parse_run.requests)[k].headers = EmptyMap
           /\ block_end(parsed_lines, unwrap(parse_run.requests)[k].line_number) + 1
                < Len(parsed_lines)
           /\ is_some(find(parsed_lines[
                  block_end(parsed_lines, unwrap(parse_run.requests)[k].line_number) + 2], ":"))
    /\ \E a \in anchors : block_end(parsed_lines, a) = Len(parsed_lines)
                            /\ block_begin(parsed_lines, a) > 0

\* Descriptors with their anchors moved down by a number of lines
anchored_from(requests, start) ==
    [ k \in 1..Len(requests) |-> [ requests[k] EXCEPT !.line_number = @ + start ] ]

\* The text of the block that begins at the zero-based index start: its
\* lines, each with its line end
block_text(lines, start) ==
    IF block_end(lines, start) <= start THEN <<>>
    ELSE join(SubSeq(lines, start + 1, block_end(lines, start)), <<"\n">>) \o <<"\n">>

\* What the blocks from the one that begins at the zero-based index start
\* on yield when the text of each is parsed on its own, block after block
RECURSIVE parsed_on_their_own(_, _)
parsed_on_their_own(lines, start) ==
    anchored_from(parse_http_file(block_text(lines, start)), start)
    \o (IF block_end(lines, start) >= Len(lines) THEN <<>>
        ELSE parsed_on_their_own(lines, block_end(lines, start) + 1))

\* The line at a zero-based index lies in a block that yields no descriptor
in_dropped_block(lines, idx) ==
    /\ ~ is_delimiter(lines, idx)
    /\ \A a \in anchors : block_begin(lines, a) # block_begin(lines, idx)

\* C28: the result of parse_http_file is the in-order concatenation of what
\* each block yields when its text is parsed on its own, so a block that
\* is dropped neither stops the parse nor changes what the others yield.
C28_ConcatenationOfBlocks ==
    is_some(parse_run.requests) =>
        unwrap(parse_run.requests) = parsed_on_their_own(parsed_lines, 0)

\* A descriptor was returned for a block that follows a block dropped for
\* its invalid URL
C28_Witness ==
    /\ is_some(parse_run.requests)
    /\ \E a \in anchors :
           \E idx \in 0..(a - 1) :
               /\ in_dropped_block(parsed_lines, idx)
               /\ has_method_and_url(parsed_lines, idx)

\* The lines between the request line at anchor and the first blank line
\* after it in its block
header_section(lines, anchor) ==
    { idx \in (anchor + 1)..(block_end(lines, anchor) - 1) :
        \A j \in (anchor + 1)..idx : trim(lines[j + 1]) # <<>> }

\* The lines of the header section that contain a colon
colon_lines(lines, anchor) ==
    { idx \in header_section(lines, anchor) : is_some(find(trim(lines[idx + 1]), ":")) }

\* C29 as stated: every line of the header section that contains ':' adds
\* the header named by the trimmed text before its first ':', with the
\* trimmed text after it as value (unless a later line gives the name
\* another value), and the lines without ':' add nothing.
C29_EachColonLineAddsHeader ==
    is_some(parse_run.requests) =>
        \A k \in 1..Len(unwrap(parse_run.requests)) :
            /\ DOMAIN unwrap(parse_run.requests)[k].headers =
                 { header_name(parsed_lines, idx) :
                     idx \in colon_lines(parsed_lines, unwrap(parse_run.requests)[k].line_number) }
            /\ \A n \in DOMAIN unwrap(parse_run.requests)[k].headers :
                   \E idx \in colon_lines(parsed_lines, unwrap(parse_run.requests)[k].line_number) :
                       /\ header_name(parsed_lines, idx) = n
                       /\ header_value(parsed_lines, idx) = unwrap(parse_run.requests)[k].headers[n]

\* C29, amended: every line of the header section that contains ':' and is
\* no comment line (trimmed text starting with # or //) adds the header
\* named by the trimmed text before its first ':', with the trimmed text
\* after it as value; a comment line or a line without ':' adds no header,
\* does not end the header section (the colon lines after it still add
\* their headers) and does not start the body (without a blank line the
\* body is absent).
C29_NonCommentColonLineAddsHeader ==
    is_some(parse_run.requests) =>
        \A k \in 1..Len(unwrap(parse_run.requests)) :
            /\ DOMAIN unwrap(parse_run.requests)[k].headers =
                 { header_name(parsed_lines, idx) :
                     idx \in { j \in colon_lines(parsed_lines, unwrap(parse_run.requests)[k].line_number) :
                                 ~ is_comment(parsed_lines, j) } }
            /\ \A n \in DOMAIN unwrap(parse_run.requests)[k].headers :
                   \E idx \in colon_lines(parsed_lines, unwrap(parse_run.requests)[k].line_number) :
                       /\ ~ is_comment(parsed_lines, idx)
                       /\ header_name(parsed_lines, idx) = n
                       /\ header_value(parsed_lines, idx) = unwrap(parse_run.requests)[k].headers[n]
            /\ header_section(parsed_lines, unwrap(parse_run.requests)[k].line_number)
                 = (unwrap(parse_run.requests)[k].line_number + 1)
                     ..(block_end(parsed_lines, unwrap(parse_run.requests)[k].line_number) - 1)
               => is_none(unwrap(parse_run.requests)[k].body)

\* A descriptor has the header of a line that follows a line without ':'
\* in its header section, and no body
C29_Witness ==
    /\ is_some(parse_run.requests)
    /\ \E k \in 1..Len(unwrap(parse_run.requests)) :
           /\ unwrap(parse_run.requests)[k].headers # EmptyMap
           /\ is_none(unwrap(parse_run.requests)[k].body)
           /\ \E idx \in header_section(parsed_lines, unwrap(parse_run.requests)[k].line_number) :
                  /\ idx \notin colon_lines(parsed_lines, unwrap(parse_run.requests)[k].line_number)
                  /\ idx + 1 \in colon_lines(parsed_lines, unwrap(parse_run.requests)[k].line_number)
                  /\ ~ is_comment(parsed_lines, idx + 1)

\* ------------------------------------------------------------------------
\* Properties of the executor calls (specification Spec)
\* ------------------------------------------------------------------------

\* An execute_command invocation resolves a descriptor: the command is
\* http.sendRequest with at least two arguments, the document was found,
\* and the text read has a descriptor anchored at the line
resolves_descriptor(task) ==
    /\ task.command = "http.sendRequest"
    /\ Len(task.arguments) >= 2
    /\ is_some(task.content)
    /\ exact_at(requests_of(unwrap(task.content)), task.line) # {}

\* C30: an execute_command invocation never calls the executor more than
\* once; it has called it once when it is past the call, and when it ends
\* it has called it exactly once if it resolved a descriptor (also when the
\* call failed or timed out) and not at all otherwise.
C30_ExecutorCalledOnceOrNever ==
    \A t \in Tasks :
        tasks[t].handler = "execute_command" =>
            /\ tasks[t].calls <= 1
            /\ tasks[t].pc \in {"http", "request_failed", "written_show", "open_failed_show"}
                 => tasks[t].calls = 1
            /\ tasks[t].pc = "done" =>
                 tasks[t].calls = IF resolves_descriptor(tasks[t]) THEN 1 ELSE 0

\* An invocation whose HTTP call was sent and failed has ended after its
\* one call of the executor
C30_Witness ==
    \E t \in Tasks :
        /\ tasks[t].handler = "execute_command"
        /\ tasks[t].pc = "done"
        /\ resolves_descriptor(tasks[t])
        /\ unwrap(tasks[t].request).method \in executor_methods
        /\ is_none(tasks[t].response)
        /\ tasks[t].calls = 1

\* ------------------------------------------------------------------------
\* Properties of the output file (specification PathSpec)
\* ------------------------------------------------------------------------

\* The names of the segments of the path that was given
segment_names == [ i \in 1..Len(parse_run.text.segments) |-> PathNames[parse_run.text.segments[i]] ]

\* The positions of the ancestor directories named test or src: every
\* segment but the last, the document itself
marked_ancestors ==
    { i \in 1..(Len(segment_names) - 1) : segment_names[i] \in {Str_test, Str_src} }

\* The path up to the segment at a position: the segments before it
path_up_to(i) ==
    IF i = 1 THEN <<>>
    ELSE <<"/">> \o join(SubSeq(segment_names, 1, i - 1), <<"/">>)

\* C31: the output file is http-responses.http in the path up to the
\* nearest ancestor directory named test or src, whichever of the two is
\* closest to the document; without such an ancestor, in the parent
\* directory of the document; without a parent, or for a uri without path
\* segments, in the scratch directory.
C31_NearestTestOrSrc ==
    is_some(parse_run.requests) =>
        unwrap(parse_run.requests) =
            Path_join(IF ~ parse_run.text.base THEN temp_dir
                      ELSE IF marked_ancestors # {} THEN path_up_to(Max(marked_ancestors))
                      ELSE IF Len(segment_names) = 0 THEN temp_dir
                      ELSE IF Len(segment_names) = 1 THEN <<"/">>
                      ELSE <<"/">> \o join(SubSeq(segment_names, 1, Len(segment_names) - 1), <<"/">>),
                      Str_output_name)

\* ------------------------------------------------------------------------
\* Properties of the invocations (specification Spec)
\* ------------------------------------------------------------------------

\* C32: every descriptor the parser produces is dispatchable: an
\* invocation that has called the executor for a parsed request has a
\* method the executor builds and sends a call for, so the call does not
\* fail as unsupported method.
C32_ParsedMethodsDispatchable ==
    \A t \in Tasks :
        (tasks[t].handler = "execute_command" /\ tasks[t].calls >= 1) =>
            /\ unwrap(tasks[t].request).method \in valid_methods
            /\ unwrap(tasks[t].request).method \in executor_methods

\* C33: an http.sendRequest invocation whose line argument is not a
\* non-negative integer calls no executor and appends no record to the
\* transcript.
C33_BadLineExecutesNothing ==
    \A t \in Tasks :
        (/\ tasks[t].handler = "execute_command"
         /\ tasks[t].command = "http.sendRequest"
         /\ Len(tasks[t].arguments) >= 2
         /\ ~ (tasks[t].arguments[2].kind = "number" /\ tasks[t].arguments[2].num >= 0)) =>
            /\ tasks[t].calls = 0
            /\ tasks[t].appended = 0

\* The command payloads code_lens and code_action return for a document
\* with a stored text: those of the lenses, and those of the actions for
\* every line a client asks about
payloads_of(uri, text) ==
    { lenses_of(uri, requests_of(text))[i].command : i \in 1..Len(requests_of(text)) }
    \cup { send_request_command(uri, unwrap(closest_at_or_before(requests_of(text), line))) :
             line \in { l \in Lines : at_or_before(requests_of(text), l) # {} } }

\* An invocation made through an affordance that code_lens or code_action
\* return for the text the invocation has read, and that has chosen
fresh_invocation(task) ==
    /\ task.handler = "execute_command"
    /\ is_some(task.affordance)
    /\ is_some(task.content)
    /\ task.pc # "parse"
    /\ unwrap(task.affordance) \in payloads_of(task.uri, unwrap(task.content))

releasing_positions == { "locked", "not_found_log" }

\* C35: the lock is always held by a handler whose next step releases it,
\* never by a handler that is calling the executor, so no handler waits
\* on the store for the duration of an HTTP call and no interleaving
\* deadlocks: while an HTTP call is in flight a handler that waits for the
\* lock finds it free or held by a third handler about to release it.
C35_NoWaitOnStoreDuringHttp ==
    /\ \A h \in Tasks :
           lock = Some(h) => /\ tasks[h].pc \in releasing_positions
                             /\ tasks[h].pc \notin executor_positions
    /\ \A t1, t2 \in Tasks :
           (tasks[t1].pc = "http" /\ tasks[t2].pc = "lock") =>
               \/ lock = None /\ ENABLED mutex_lock(t2)
               \/ \E h \in Tasks \ {t1, t2} : lock = Some(h)

\* While the HTTP call of an invocation is in flight a did_change of the
\* invoked document has completed and the store holds the new text
C35_Witness ==
    \E t1, t2 \in Tasks :
        /\ tasks[t1].pc = "http"
        /\ tasks[t2].handler = "did_change" /\ tasks[t2].pc = "done"
        /\ tasks[t2].uri = tasks[t1].uri
        /\ map_get(document_map, tasks[t1].uri) # tasks[t1].content

\* An invocation that has read the document and chosen its request
has_chosen(task) ==
    /\ task.handler = "execute_command"
    /\ is_some(task.content)
    /\ task.pc # "parse"

\* The descriptors of every text a client sends, by the name of the text
descriptors == [ x \in Texts |-> requests_of(x) ]

\* The first of the requests anchored at a line, if there is one
anchored_at(requests, line) ==
    IF exact_at(requests, line) = {} THEN None
    ELSE Some(requests[Min(exact_at(requests, line))])

\* The descriptor of the text an invocation copied that is anchored at its
\* line, if there is one
copied_request(task) == anchored_at(descriptors[unwrap(task.content)], task.line)

\* The record of a request and a response is in the transcript
recorded(request, response) ==
    \E i \in 1..Len(transcript) :
        transcript[i] =
            [ method |-> request.method, url |-> request.url,
              headers |-> request.headers, body |-> request.body,
              status |-> response.status, status_text |-> response.status_text ]

\* C36: the request an invocation sends is the descriptor of the text it
\* copied under the lock, and the record it appends is the record of that
\* descriptor and of the response it got, whatever the store holds for the
\* document by then.
C36_OneVersionOfTheText ==
    \A t \in Tasks :
        has_chosen(tasks[t]) =>
            /\ tasks[t].request = copied_request(tasks[t])
            /\ tasks[t].appended = 1 =>
                 recorded(unwrap(copied_request(tasks[t])), unwrap(tasks[t].response))

\* An invocation has appended its record after a did_change of its
\* document completed during the HTTP call: the store holds another text
\* than the one the invocation copied
C36_Witness ==
    \E t1, t2 \in Tasks :
        /\ has_chosen(tasks[t1])
        /\ tasks[t1].appended = 1
        /\ tasks[t2].handler = "did_change" /\ tasks[t2].pc = "done"
        /\ tasks[t2].uri = tasks[t1].uri
        /\ tasks[t1].uri \in DOMAIN document_map
        /\ Some(document_map[tasks[t1].uri]) # tasks[t1].content

====
